---------------------------- MODULE Spec2Model ----------------------------
(***************************************************************************)
(* ZenithPlanner: the task interpretation and prioritization engine.       *)
(*                                                                         *)
(*   src/task_manager.py   TaskManager (add / list / countdown / complete  *)
(*                         / delete / daily summary)                       *)
(*   src/llm_utils.py      parse_time_manually, parse_task_with_gemini     *)
(*   src/db/models.py      TaskDatabase (the tasks table)                  *)
(*   src/streamlit_app.py  the caller's success test on the add message    *)
(*                                                                         *)
(* Time is kept to the minute.  A naive datetime is a record               *)
(* [year, month, day, hour, minute]; an instant stored in the tasks table  *)
(* (TIMESTAMPTZ) is kept as its wall clock in Asia/Kolkata (+05:30), which *)
(* is what astimezone(self.ist) yields for it.                             *)
(***************************************************************************)
EXTENDS Integers, Sequences, FiniteSets, TLC

(***************************************************************************)
(* Strings.  Python's str.lower() and the `in` substring test.             *)
(***************************************************************************)
Upper == "ABCDEFGHIJKLMNOPQRSTUVWXYZ"
Lower == "abcdefghijklmnopqrstuvwxyz"

LowerChar(c) ==
    IF \E i \in 1..Len(Upper) : SubSeq(Upper, i, i) = c
    THEN LET i == CHOOSE j \in 1..Len(Upper) : SubSeq(Upper, j, j) = c
         IN  SubSeq(Lower, i, i)
    ELSE c

RECURSIVE LowerFrom(_, _)
LowerFrom(s, i) ==
    IF i > Len(s) THEN "" ELSE LowerChar(SubSeq(s, i, i)) \o LowerFrom(s, i + 1)

\* str.lower()
lower(s) == LowerFrom(s, 1)

\* kw in s
Contains(kw, s) ==
    \E i \in 1..(Len(s) - Len(kw) + 1) : SubSeq(s, i, i + Len(kw) - 1) = kw

\* any(keyword in s for keyword in kws)
AnyIn(kws, s) == \E k \in 1..Len(kws) : Contains(kws[k], s)

(***************************************************************************)
(* JSON null / a missing key, and Python truthiness of an optional string. *)
(***************************************************************************)
Null   == "<null>"
Absent == "<absent>"

IsNone(v) == v = Null \/ v = Absent
Truthy(s) == ~IsNone(s) /\ s # ""


(***************************************************************************)
(* Datetimes.  NoDT stands for None (a NULL due_time).                     *)
(***************************************************************************)
DT(y, mo, d, h, mi) ==
    [year |-> y, month |-> mo, day |-> d, hour |-> h, minute |-> mi]

NoDT == DT(0, 0, 0, 0, 0)

\* pytz.timezone('Asia/Kolkata'): +05:30, in minutes
IST_OFFSET == 330

(***************************************************************************)
(* ISO-8601 strings.  A due_time string of the candidate record is kept as *)
(* what datetime.fromisoformat makes of it:                                *)
(*   kind "absent" / "null"  no key / JSON null (falsy)                    *)
(*   kind "invalid"          a non-empty string fromisoformat rejects      *)
(*   kind "iso"              a datetime dt, naive (aware = FALSE) or with  *)
(*                           the UTC offset off, in minutes                *)
(* strftime("%Y-%m-%dT%H:%M:%S") writes the wall clock and no offset;      *)
(* isoformat() of an aware datetime writes the offset too.                 *)
(***************************************************************************)
AbsentDue      == [kind |-> "absent",  dt |-> NoDT, aware |-> FALSE, off |-> 0]
NullDue        == [kind |-> "null",    dt |-> NoDT, aware |-> FALSE, off |-> 0]
InvalidDue     == [kind |-> "invalid", dt |-> NoDT, aware |-> FALSE, off |-> 0]
NaiveIso(t)    == [kind |-> "iso", dt |-> t, aware |-> FALSE, off |-> 0]
AwareIso(t, o) == [kind |-> "iso", dt |-> t, aware |-> TRUE, off |-> o]

(***************************************************************************)
(* The add requests of the model: what a user types and what the           *)
(* extraction service (Gemini) answers.  A response is                     *)
(*   [ok |-> FALSE]                 generate_content or json.loads raised  *)
(*   [ok |-> TRUE, data |-> ...]    the candidate record, with the fields  *)
(*                                  of the prompt's JSON schema            *)
(* A request is [user_id, text, response]: who types the text, and the     *)
(* service's answer to it.  A run draws its requests from one scenario.    *)
(***************************************************************************)
NoResponse == [ok |-> FALSE]

Start == DT(2025, 1, 10, 8, 0)

Candidate(title, due_time, category, is_recurring, repeat_pattern, user_notes) ==
    [ok |-> TRUE,
     data |-> [title |-> title, due_time |-> due_time, category |-> category,
               is_recurring |-> is_recurring, repeat_pattern |-> repeat_pattern,
               user_notes |-> user_notes]]

Request(user_id, text, response) ==
    [user_id |-> user_id, text |-> text, response |-> response]

Recurrence ==
    { Request(1, "take medicine every day",
              Candidate("Take Medicine", NaiveIso(DT(2025, 1, 10, 8, 0)),
                        "Health", TRUE, "daily", Null)),
      Request(1, "pay rent every month",
              Candidate("Pay Rent", NaiveIso(DT(2025, 1, 31, 9, 0)),
                        "Finance", TRUE, "Monthly", Null)),
      Request(2, "submit report by friday",
              Candidate("Submit Report", NaiveIso(DT(2025, 1, 10, 17, 0)),
                        "Work", FALSE, Null, Null)) }

Yearly ==
    { Request(1, "dad's birthday feb 29",
              Candidate("Dad's Birthday", NaiveIso(DT(2024, 2, 29, 18, 30)),
                        "Personal", TRUE, "yearly", Null)),
      Request(2, "newborn checkup",
              Candidate("Newborn Checkup", NaiveIso(DT(2024, 6, 1, 10, 0)),
                        "Health", FALSE, Null, Null)) }

Failures ==
    { Request(1, "buy milk",
              Candidate("Buy milk", AbsentDue, Null, FALSE, Null, Null)),
      Request(2, "remind me", NoResponse),
      Request(2, "do the thing",
              Candidate("", NullDue, "Others", FALSE, Null, Null)),
      Request(1, "water the plants every week",
              Candidate("Water Plants", NaiveIso(DT(2025, 1, 6, 7, 0)),
                        "Home", TRUE, "weekly", Absent)) }

TimeParsing ==
    { Request(1, "standup at 25:30",
              Candidate("Standup", NaiveIso(DT(2025, 1, 11, 1, 30)),
                        "Work", FALSE, Null, Null)),
      Request(2, "call the doctor tomorrow",
              Candidate("Call Doctor", InvalidDue, "Health", FALSE, Null, Null)),
      Request(1, "fix error in login page",
              Candidate("Fix error in login page", AbsentDue, Absent,
                        FALSE, Absent, Absent)) }

Mixed ==
    { Request(1, "birthday club dues every month",
              Candidate("Birthday club dues", NaiveIso(DT(2024, 12, 1, 9, 0)),
                        "Finance", TRUE, "monthly", Null)),
      Request(2, "renew insurance every year",
              Candidate("Renew insurance", NaiveIso(DT(2024, 3, 15, 9, 0)),
                        "Finance", TRUE, "yearly", Null)),
      Request(1, "", NoResponse) }

Ordering ==
    { Request(1, "pay the bills",
              Candidate("Pay Bills", NaiveIso(DT(2025, 1, 10, 7, 0)),
                        "Finance", FALSE, Null, Null)),
      Request(1, "sync with the team",
              Candidate("Team Sync", NaiveIso(DT(2025, 1, 10, 10, 0)),
                        "Work", FALSE, Null, Null)),
      Request(1, "read a book",
              Candidate("Read Book", NullDue, "Personal", FALSE, Null, Null)) }

\* answers whose is_recurring and repeat_pattern do not go together, or
\* that name no due_time or a pattern outside the prompt's four
Fallback ==
    { Request(1, "stretch every day",
              Candidate("Stretch", NullDue, "Health", TRUE, "daily", Null)),
      Request(1, "go to the gym regularly",
              Candidate("Gym", NaiveIso(DT(2025, 1, 10, 18, 0)),
                        "Health", TRUE, Null, Null)),
      Request(2, "team review every two weeks",
              Candidate("Team Review", NaiveIso(DT(2025, 1, 13, 10, 0)),
                        "Work", TRUE, "biweekly", Null)) }

Scenarios ==
    { Recurrence, Yearly, Failures, TimeParsing, Mixed, Ordering, Fallback }

AllRequests == UNION Scenarios

KnownTexts == { r.text : r \in AllRequests }

KnownTitles ==
    { r.response.data.title : r \in { q \in AllRequests : q.response.ok } }

\* the categories a row can hold (add_task stores "Others" for a missing key)
KnownCategories ==
    ({ r.response.data.category : r \in { q \in AllRequests : q.response.ok } }
        \cup {"Others"}) \ {Null, Absent}

KnownPatterns ==
    { r.response.data.repeat_pattern : r \in { q \in AllRequests : q.response.ok } }

(***************************************************************************)
(* Classification rules (task_manager.py).  Both read title and category   *)
(* with task_dict.get(key, '').lower(): the rows come from SELECT *, so    *)
(* the key is always there and a NULL category arrives as None, on which   *)
(* .lower() raises AttributeError.                                         *)
(***************************************************************************)
birthday_keywords == << "birthday", "bday", "b-day", "born" >>
yearly_keywords   == << "anniversary", "wedding", "graduation day" >>

event_keywords ==
    << "birthday", "bday", "b-day", "exam", "test", "meeting", "appointment",
       "funeral", "wedding", "anniversary", "interview", "presentation",
       "conference", "seminar", "graduation", "party", "celebration",
       "ceremony", "event", "show", "concert", "game", "match", "vacation",
       "trip", "holiday", "festival", "outing", "gathering", "reunion" >>

event_categories ==
    << "event", "meeting", "appointment", "celebration", "entertainment",
       "travel", "social", "ceremony", "exam", "interview" >>

\* task_dict.get('category', '').lower() raises on None
ClassifyRaises(task) == task.category = Null

\* TaskManager._is_yearly_recurring_event (defined when ~ClassifyRaises(task))
is_yearly_recurring_event(task) ==
    LET title_lower    == lower(task.title)
        category_lower == lower(task.category)
    IN  \/ AnyIn(birthday_keywords \o yearly_keywords, title_lower)
        \/ (Contains("personal", category_lower)
              /\ AnyIn(birthday_keywords, title_lower))

\* TaskManager._is_event (defined when ~ClassifyRaises(task))
is_event(task) ==
    LET title_lower    == lower(task.title)
        category_lower == lower(task.category)
    IN  \/ AnyIn(event_keywords, title_lower)
        \/ AnyIn(event_categories, category_lower)

\* the two predicates on the titles and categories of the model's requests,
\* computed once
YearlyOf ==
    [t \in KnownTitles, c \in KnownCategories |->
        is_yearly_recurring_event([title |-> t, category |-> c])]

EventOf ==
    [t \in KnownTitles, c \in KnownCategories |->
        is_event([title |-> t, category |-> c])]

\* self._is_yearly_recurring_event(task_dict), self._is_event(task_dict)
IsYearly(row) == YearlyOf[row.title, row.category]
IsEvent(row)  == EventOf[row.title, row.category]

(***************************************************************************)
(* Calendar arithmetic: datetime, timedelta and dateutil's relativedelta.  *)
(***************************************************************************)
IsLeap(y) == y % 4 = 0 /\ (y % 100 # 0 \/ y % 400 = 0)

DaysInMonth(y, m) ==
    IF m = 2 THEN (IF IsLeap(y) THEN 29 ELSE 28)
    ELSE IF m \in {4, 6, 9, 11} THEN 30 ELSE 31

RECURSIVE DaysBeforeMonth(_, _)
DaysBeforeMonth(y, m) ==
    IF m = 1 THEN 0 ELSE DaysBeforeMonth(y, m - 1) + DaysInMonth(y, m - 1)

DaysBeforeYear(y) ==
    LET p == y - 1 IN p * 365 + (p \div 4) - (p \div 100) + (p \div 400)

\* date.toordinal(): 0001-01-01 is day 1
ToOrdinal(y, m, d) == DaysBeforeYear(y) + DaysBeforeMonth(y, m) + d

RECURSIVE MonthOfYearDay(_, _, _)
MonthOfYearDay(y, m, n) ==
    \* n: 0-based day of the year still to consume from month m on
    IF n < DaysInMonth(y, m) THEN << m, n + 1 >>
    ELSE MonthOfYearDay(y, m + 1, n - DaysInMonth(y, m))

\* date.fromordinal(): << year, month, day >>
FromOrdinal(ord) ==
    LET n0   == ord - 1
        n400 == n0 \div 146097
        r400 == n0 % 146097
        n100 == r400 \div 36524
        r100 == r400 % 36524
        n4   == r100 \div 1461
        r4   == r100 % 1461
        n1   == r4 \div 365
        r1   == r4 % 365
        y    == n400 * 400 + n100 * 100 + n4 * 4 + n1 + 1
    IN  IF n1 = 4 \/ n100 = 4
        THEN << y - 1, 12, 31 >>
        ELSE LET md == MonthOfYearDay(y, 1, r1) IN << y, md[1], md[2] >>

\* minutes since the start of day 0 of the proleptic calendar
ToMinutes(dt) ==
    (ToOrdinal(dt.year, dt.month, dt.day) * 24 + dt.hour) * 60 + dt.minute

\* the datetime of a date << year, month, day >> and a minute of that day
AtMinuteOfDay(ymd, r) == DT(ymd[1], ymd[2], ymd[3], r \div 60, r % 60)

FromMinutes(n) == AtMinuteOfDay(FromOrdinal(n \div 1440), n % 1440)

\* dt + timedelta(minutes=n)
AddMinutes(dt, n) == FromMinutes(ToMinutes(dt) + n)

\* dt + timedelta(days=n), dt + relativedelta(days=n)
AddDays(dt, n) == AddMinutes(dt, n * 1440)

\* the month moved on with the day of month kept as it is, valid or not
AddMonthsUnclipped(dt, n) ==
    DT(dt.year + (((dt.month - 1) + n) \div 12),
       (((dt.month - 1) + n) % 12) + 1, dt.day, dt.hour, dt.minute)

\* dt + relativedelta(months=n), 0 <= n: the day is clipped to the month's end
AddMonths(dt, n) ==
    LET k  == (dt.month - 1) + n
        y  == dt.year + (k \div 12)
        mo == (k % 12) + 1
        d  == IF dt.day > DaysInMonth(y, mo) THEN DaysInMonth(y, mo) ELSE dt.day
    IN  DT(y, mo, d, dt.hour, dt.minute)

\* dt + relativedelta(years=n): Feb 29 is clipped to Feb 28
AddYears(dt, n) ==
    LET y == dt.year + n
        d == IF dt.day > DaysInMonth(y, dt.month)
             THEN DaysInMonth(y, dt.month) ELSE dt.day
    IN  DT(y, dt.month, d, dt.hour, dt.minute)

\* a < b on two datetimes of the same timezone
Before(a, b) == ToMinutes(a) < ToMinutes(b)

(***************************************************************************)
(* The regular expressions of parse_time_manually, as re.search runs them: *)
(* the leftmost position that matches, \d{1,2} taking two digits when the  *)
(* rest of the pattern then still matches (greedy, with backtracking).     *)
(***************************************************************************)
DigitChars == "0123456789"

Ch(s, i) == IF i >= 1 /\ i <= Len(s) THEN SubSeq(s, i, i) ELSE ""

IsDigit(c) == c # "" /\ \E k \in 1..Len(DigitChars) : SubSeq(DigitChars, k, k) = c

DigitVal(c) == (CHOOSE k \in 1..Len(DigitChars) : SubSeq(DigitChars, k, k) = c) - 1

\* s[i:].startswith(lit)
StartsAt(s, i, lit) ==
    i >= 1 /\ i + Len(lit) - 1 <= Len(s) /\ SubSeq(s, i, i + Len(lit) - 1) = lit

\* \d{n} at i
DigitsAt(s, i, n) == \A k \in 0..(n - 1) : IsDigit(Ch(s, i + k))

RECURSIVE IntAt(_, _, _)
\* int() of the n digits that start at i
IntAt(s, i, n) ==
    IF n = 0 THEN 0 ELSE IntAt(s, i, n - 1) * 10 + DigitVal(Ch(s, i + n - 1))

RECURSIVE SkipSpaces(_, _)
\* \s* from i on: the index of the first character that is no white space
SkipSpaces(s, i) == IF Ch(s, i) = " " THEN SkipSpaces(s, i + 1) ELSE i

RECURSIVE DigitRun(_, _)
\* \d+ from i on: how many digits follow
DigitRun(s, i) == IF IsDigit(Ch(s, i)) THEN 1 + DigitRun(s, i + 1) ELSE 0

\* (am|pm) at i: "am", "pm" or "" when neither is there
MeridiemAt(s, i) ==
    IF StartsAt(s, i, "am") THEN "am" ELSE IF StartsAt(s, i, "pm") THEN "pm" ELSE ""

NoMatch == [found |-> FALSE, groups |-> 0, g1 |-> 0, g2 |-> 0, ampm |-> ""]

\* r'(\d{1,2}):(\d{2})\s*(am|pm)' tried at i with an hour of n digits
HourMinuteMeridiemAt(s, i, n) ==
    /\ DigitsAt(s, i, n)
    /\ Ch(s, i + n) = ":"
    /\ DigitsAt(s, i + n + 1, 2)
    /\ MeridiemAt(s, SkipSpaces(s, i + n + 3)) # ""

\* r'(\d{1,2})\s*(am|pm)'
HourMeridiemAt(s, i, n) ==
    /\ DigitsAt(s, i, n)
    /\ MeridiemAt(s, SkipSpaces(s, i + n)) # ""

\* r'(\d{1,2}):(\d{2})'
HourMinuteAt(s, i, n) ==
    /\ DigitsAt(s, i, n)
    /\ Ch(s, i + n) = ":"
    /\ DigitsAt(s, i + n + 1, 2)

\* r'(\d{1,2})\s*o\'?clock'
OClockAt(s, i, n) ==
    /\ DigitsAt(s, i, n)
    /\ LET j == SkipSpaces(s, i + n)
       IN  StartsAt(s, j, "oclock") \/ StartsAt(s, j, "o'clock")

\* the least element of a nonempty set of positions: re.search's leftmost match
Leftmost(Hits) == CHOOSE j \in Hits : \A h \in Hits : j <= h

\* time_patterns[k] tried at i with an hour of n digits
TimePatternAt(k, s, i, n) ==
    CASE k = 1 -> HourMinuteMeridiemAt(s, i, n)
      [] k = 2 -> HourMeridiemAt(s, i, n)
      [] k = 3 -> HourMinuteAt(s, i, n)
      [] OTHER -> OClockAt(s, i, n)

\* the positions at which time_patterns[k] matches
TimeHits(k, s) ==
    { i \in 1..Len(s) : TimePatternAt(k, s, i, 2) \/ TimePatternAt(k, s, i, 1) }

\* match.groups() of time_patterns[k] matched at i with an hour of n digits
TimeGroups(k, s, i, n) ==
    CASE k = 1 ->
           [found |-> TRUE, groups |-> 3, g1 |-> IntAt(s, i, n),
            g2 |-> IntAt(s, i + n + 1, 2),
            ampm |-> MeridiemAt(s, SkipSpaces(s, i + n + 3))]
      [] k = 2 ->
           [found |-> TRUE, groups |-> 2, g1 |-> IntAt(s, i, n), g2 |-> 0,
            ampm |-> MeridiemAt(s, SkipSpaces(s, i + n))]
      [] k = 3 ->
           [found |-> TRUE, groups |-> 2, g1 |-> IntAt(s, i, n),
            g2 |-> IntAt(s, i + n + 1, 2), ampm |-> ""]
      [] OTHER ->
           [found |-> TRUE, groups |-> 1, g1 |-> IntAt(s, i, n), g2 |-> 0,
            ampm |-> ""]

\* the match at position i: \d{1,2} takes two digits when the rest then matches
TimeMatchAt(k, s, i) ==
    TimeGroups(k, s, i, IF TimePatternAt(k, s, i, 2) THEN 2 ELSE 1)

\* re.search(time_patterns[k], s): the match's groups
SearchTime(k, s) ==
    IF TimeHits(k, s) = {} THEN NoMatch
    ELSE TimeMatchAt(k, s, Leftmost(TimeHits(k, s)))

\* r'in (\d+) <unit>s?' tried at i
InUnitAt(unit, s, i) ==
    /\ StartsAt(s, i, "in ")
    /\ DigitRun(s, i + 3) >= 1
    /\ StartsAt(s, i + 3 + DigitRun(s, i + 3), " " \o unit)

InUnitHits(unit, s) == { i \in 1..Len(s) : InUnitAt(unit, s, i) }

\* re.search(r'in (\d+) <unit>s?', s): << matched, int(group(1)) >>
\* (the texts of the model keep these numbers small enough for now + offset
\* to stay a datetime)
SearchIn(unit, s) ==
    IF InUnitHits(unit, s) = {} THEN << FALSE, 0 >>
    ELSE << TRUE, IntAt(s, Leftmost(InUnitHits(unit, s)) + 3,
                        DigitRun(s, Leftmost(InUnitHits(unit, s)) + 3)) >>

(***************************************************************************)
(* llm_utils.parse_time_manually.  The result is                           *)
(*   [kind |-> "none"]            return None                              *)
(*   [kind |-> "time", dt |-> t]  the naive string strftime writes         *)
(*   [kind |-> "raise"]           ValueError from datetime.replace         *)
(***************************************************************************)
ManualNone     == [kind |-> "none", dt |-> NoDT]
ManualRaise    == [kind |-> "raise", dt |-> NoDT]
ManualTime(t)  == [kind |-> "time", dt |-> t]

evening_keywords == << "dinner", "evening", "night", "pm", "tonight" >>

\* the conversion without its two cases for 12: pm adds 12, am nothing
ResolveClockNoTwelve(m, user_input_lower) ==
    << IF m.ampm = "pm" THEN m.g1 + 12 ELSE m.g1, m.g2 >>

\* lines 50-81: the 24-hour hour and the minute of a match
ResolveClock(m, user_input_lower) ==
    IF m.groups >= 3 \/ (m.groups = 2 /\ m.ampm \in {"am", "pm"})
    THEN LET hour == IF m.ampm = "pm" /\ m.g1 # 12 THEN m.g1 + 12
                     ELSE IF m.ampm = "am" /\ m.g1 = 12 THEN 0
                     ELSE m.g1
         IN  << hour, m.g2 >>
    ELSE LET hour == IF m.g1 <= 12
                        /\ AnyIn(evening_keywords, user_input_lower)
                        /\ m.g1 < 12
                     THEN m.g1 + 12 ELSE m.g1
         IN  << hour, m.g2 >>

\* datetime.replace(hour=.., minute=.., second=0, microsecond=0) on date's day
OnDate(date, hour, minute) == DT(date.year, date.month, date.day, hour, minute)

\* the date resolution without the roll to tomorrow
ResolveDateToday(hour, minute, current_time_ist) ==
    IF hour > 23 \/ minute > 59
    THEN ManualRaise
    ELSE ManualTime(OnDate(current_time_ist, hour, minute))

\* lines 83-92: today at hour:minute, tomorrow when that is not after now
ResolveDate(hour, minute, current_time_ist) ==
    IF hour > 23 \/ minute > 59
    THEN ManualRaise
    ELSE IF ~Before(current_time_ist, OnDate(current_time_ist, hour, minute))
    THEN ManualTime(OnDate(AddDays(current_time_ist, 1), hour, minute))
    ELSE ManualTime(OnDate(current_time_ist, hour, minute))

\* what the text says: a clock time << hour, minute >>
ClockScan(hm) == [kind |-> "clock", n |-> 0, hour |-> hm[1], minute |-> hm[2]]

RECURSIVE TryPatterns(_, _)
\* the for loop over time_patterns, from pattern k on: the first match
TryPatterns(k, user_input_lower) ==
    IF k > 4 THEN [kind |-> "none", n |-> 0, hour |-> 0, minute |-> 0]
    ELSE IF SearchTime(k, user_input_lower).found
    THEN ClockScan(ResolveClock(SearchTime(k, user_input_lower), user_input_lower))
    ELSE TryPatterns(k + 1, user_input_lower)

\* lines 27-81 on the lowered text
ScanLower(user_input_lower) ==
    IF Contains("in ", user_input_lower) /\ SearchIn("hour", user_input_lower)[1]
    THEN [kind |-> "hours", n |-> SearchIn("hour", user_input_lower)[2],
          hour |-> 0, minute |-> 0]
    ELSE IF Contains("in ", user_input_lower)
              /\ SearchIn("minute", user_input_lower)[1]
    THEN [kind |-> "minutes", n |-> SearchIn("minute", user_input_lower)[2],
          hour |-> 0, minute |-> 0]
    ELSE TryPatterns(1, user_input_lower)

\* lines 24-81: what the text says, which does not depend on the clock
ScanText(user_input) == ScanLower(lower(user_input))

\* ScanText on the texts of the model's requests, computed once
ScanOf == [t \in KnownTexts |-> ScanText(t)]

\* lines 29-92: the time a scan gives at the clock current_time_ist
ResolveScan(scan, current_time_ist) ==
    CASE scan.kind = "hours" ->
           ManualTime(AddMinutes(current_time_ist, scan.n * 60))
      [] scan.kind = "minutes" ->
           ManualTime(AddMinutes(current_time_ist, scan.n))
      [] scan.kind = "clock" ->
           ResolveDate(scan.hour, scan.minute, current_time_ist)
      [] OTHER -> ManualNone

parse_time_manually(user_input, current_time_ist) ==
    ResolveScan(IF user_input \in KnownTexts THEN ScanOf[user_input]
                ELSE ScanText(user_input),
                current_time_ist)

\* task_data.get('due_time') is truthy
HasDue(task_data) == task_data.due_time.kind \in {"invalid", "iso"}

\* the instant of an aware datetime, in minutes (UTC)
Instant(iso) == ToMinutes(iso.dt) - iso.off

\* aware.astimezone(ist): the wall clock in Asia/Kolkata
AsIST(iso) == AddMinutes(iso.dt, IST_OFFSET - iso.off)

(***************************************************************************)
(* llm_utils.parse_task_with_gemini, lines 203-244: what the function      *)
(* makes of the service's answer.  response is                             *)
(*   [ok |-> FALSE, ...]  generate_content raised, or json.loads did       *)
(*   [ok |-> TRUE, data |-> candidate record]                              *)
(* The result is [kind |-> "error" | "data", data, calls], calls being the *)
(* number of generate_content calls made.                                  *)
(***************************************************************************)
TWELVE_HOURS == 43200

relative_markers == << "in ", "after ", "ago" >>

\* any(phrase in user_input.lower() for phrase in ['in ', 'after ', 'ago'])
HasRelativeMarker(user_input) == AnyIn(relative_markers, lower(user_input))

\* the same on the texts of the model's requests, computed once
MarkerOf == [t \in KnownTexts |-> HasRelativeMarker(t)]

CorrectionNote == "Time automatically corrected for IST context"

\* lines 209-224: validation and correction using manual parsing
Reconcile(task_data, manual) ==
    IF HasDue(task_data) /\ manual.kind = "time"
          /\ task_data.due_time.kind = "iso"   \* else fromisoformat raises
          /\ ~task_data.due_time.aware         \* else aware - naive raises
    THEN LET gemini_time == ToMinutes(task_data.due_time.dt)
             manual_time == ToMinutes(manual.dt)
             diff        == IF gemini_time >= manual_time
                            THEN gemini_time - manual_time
                            ELSE manual_time - gemini_time
         IN  IF diff * 60 > TWELVE_HOURS
             THEN [task_data EXCEPT
                     !.due_time   = NaiveIso(manual.dt),
                     !.user_notes = IF Truthy(task_data.user_notes)
                                    THEN task_data.user_notes
                                    ELSE CorrectionNote]
             ELSE task_data
    ELSE task_data

\* lines 226-238: additional validation for past times
PastDueGuard(task_data, user_input, current_time_ist) ==
    IF HasDue(task_data)
          /\ task_data.due_time.kind = "iso"   \* else fromisoformat raises
          /\ task_data.due_time.aware          \* else naive < aware raises
          /\ Instant(task_data.due_time) < ToMinutes(current_time_ist) - IST_OFFSET
          /\ ~(IF user_input \in KnownTexts THEN MarkerOf[user_input]
                ELSE HasRelativeMarker(user_input))
    THEN [task_data EXCEPT !.due_time = NaiveIso(AddDays(task_data.due_time.dt, 1))]
    ELSE task_data

ErrorResult(text, n) == [kind |-> "error", error |-> text, calls |-> n]

\* lines 96-98 and 203-244; manual is parse_time_manually's result (line 113),
\* which is a value here: the caller handles the call that raises
parse_task_with_gemini(model_loaded, user_input, current_time_ist, manual, response) ==
    IF ~model_loaded
    THEN ErrorResult("Gemini model is not available.", 0)
    ELSE IF ~response.ok
    THEN ErrorResult("An error occurred while processing your request with the AI.", 1)
    ELSE [kind  |-> "data",
          calls |-> 1,
          data  |-> PastDueGuard(Reconcile(response.data, manual),
                                 user_input, current_time_ist)]

(***************************************************************************)
(* Formatting: str(int) and strftime('%A, %B %d at %I:%M %p IST').         *)
(***************************************************************************)
RECURSIVE IntStr(_)
\* str(n), n >= 0
IntStr(n) ==
    IF n < 10 THEN SubSeq(DigitChars, n + 1, n + 1)
    ELSE IntStr(n \div 10) \o SubSeq(DigitChars, (n % 10) + 1, (n % 10) + 1)

\* %d, %I, %M: two digits
Pad2(n) == IF n < 10 THEN "0" \o IntStr(n) ELSE IntStr(n)

DayNames ==
    << "Monday", "Tuesday", "Wednesday", "Thursday", "Friday", "Saturday",
       "Sunday" >>

MonthNames ==
    << "January", "February", "March", "April", "May", "June", "July",
       "August", "September", "October", "November", "December" >>

\* datetime.weekday(): Monday is 0
Weekday(dt) == (ToOrdinal(dt.year, dt.month, dt.day) + 6) % 7

Strftime(dt) ==
    LET h12 == IF dt.hour % 12 = 0 THEN 12 ELSE dt.hour % 12
    IN  DayNames[Weekday(dt) + 1] \o ", " \o MonthNames[dt.month] \o " "
          \o Pad2(dt.day) \o " at " \o Pad2(h12) \o ":" \o Pad2(dt.minute)
          \o " " \o (IF dt.hour < 12 THEN "AM" ELSE "PM") \o " IST"

(***************************************************************************)
(* The tasks table (db/models.py).  The table is the sequence of its rows  *)
(* in insertion order.  created_at (DEFAULT CURRENT_TIMESTAMP, which no    *)
(* statement writes and only ORDER BY reads) is kept as that order: it     *)
(* grows with the position.  due_time NULL is NoDT, a NULL text is Null.   *)
(***************************************************************************)
HasDueTime(row) == row.due_time # NoDT

RECURSIVE SelectRows(_, _, _)
\* the rows at the positions P (those a WHERE clause keeps), from position i on
SelectRows(T, P, i) ==
    IF i > Len(T) THEN << >>
    ELSE (IF i \in P THEN << T[i] >> ELSE << >>) \o SelectRows(T, P, i + 1)

RECURSIVE Reverse(_)
Reverse(q) == IF q = << >> THEN << >> ELSE Reverse(Tail(q)) \o << Head(q) >>

\* TaskDatabase.add_task: the row INSERTed for task_data
db_add_task(T, id, task_data, due_time, user_id) ==
    Append(T,
       [id             |-> id,
        user_id        |-> user_id,
        title          |-> task_data.title,
        due_time       |-> due_time,
        category       |-> IF task_data.category = Absent
                           THEN "Others" ELSE task_data.category,
        is_completed   |-> FALSE,
        is_recurring   |-> task_data.is_recurring,
        repeat_pattern |-> IF IsNone(task_data.repeat_pattern)
                           THEN Null ELSE task_data.repeat_pattern,
        user_notes     |-> IF IsNone(task_data.user_notes)
                           THEN Null ELSE task_data.user_notes])

\* a WHERE clause that forgets the owner: WHERE id = :task_id
RowMatchesAnyUser(row, task_id, user_id) == row.id = task_id

\* WHERE id = :task_id AND user_id = :user_id
RowMatches(row, task_id, user_id) == row.id = task_id /\ row.user_id = user_id

\* get_tasks without its completed filter: every row of the user
get_tasks_unfiltered(T, user_id, completed) ==
    Reverse(SelectRows(T, { i \in 1..Len(T) : T[i].user_id = user_id }, 1))

\* TaskDatabase.get_tasks; completed is "None", "True" or "False"
get_tasks(T, user_id, completed) ==
    LET P == { i \in 1..Len(T) :
                 /\ T[i].user_id = user_id
                 /\ \/ completed = "None"
                    \/ (completed = "True") = T[i].is_completed }
    IN  Reverse(SelectRows(T, P, 1))     \* ORDER BY created_at DESC

\* TaskDatabase.get_task_by_id: the rows found (none or one)
get_task_by_id(T, task_id, user_id) ==
    SelectRows(T, { i \in 1..Len(T) : RowMatches(T[i], task_id, user_id) }, 1)

\* TaskDatabase.update_task_status
update_task_status(T, task_id, user_id, is_completed) ==
    [i \in 1..Len(T) |->
        IF RowMatches(T[i], task_id, user_id)
        THEN [T[i] EXCEPT !.is_completed = is_completed] ELSE T[i]]

\* TaskDatabase.reset_recurring_task
reset_recurring_task(T, task_id, user_id, new_due_time) ==
    [i \in 1..Len(T) |->
        IF RowMatches(T[i], task_id, user_id)
        THEN [T[i] EXCEPT !.due_time = new_due_time, !.is_completed = FALSE]
        ELSE T[i]]

\* TaskDatabase.update_task_due_time
update_task_due_time(T, task_id, user_id, new_due_time) ==
    [i \in 1..Len(T) |->
        IF RowMatches(T[i], task_id, user_id)
        THEN [T[i] EXCEPT !.due_time = new_due_time] ELSE T[i]]

\* TaskDatabase.delete_task
db_delete_task(T, task_id, user_id) ==
    SelectRows(T, { i \in 1..Len(T) : ~RowMatches(T[i], task_id, user_id) }, 1)

(***************************************************************************)
(* TaskManager's listings.  A listing runs its loop over the rows fetched  *)
(* at its start; every update_task_due_time it makes is committed at once, *)
(* so the updates made before an exception stay.  The loops return         *)
(*   [T |-> the table afterwards, due |-> entries with a time_left,        *)
(*    nodue |-> entries without, raised |-> an exception left the loop]    *)
(* an entry being [id, timed, time_left (minutes), due_time].              *)
(***************************************************************************)
Entry(row, timed, time_left, due_time) ==
    [id |-> row.id, timed |-> timed, time_left |-> time_left,
     due_time |-> due_time]

\* lines 105-106 and 171-172: time_left = due - now_ist, then the append
Listed(acc, row, due, now_ist) ==
    [acc EXCEPT !.due = Append(acc.due,
                          Entry(row, TRUE, ToMinutes(due) - ToMinutes(now_ist),
                                due))]

\* a lazy advance that is computed and shown, and never written back
AdvancedNotPersisted(acc, row, user_id, next_year) == acc

\* lines 100-102 and 166-168: the due time moves on a year, committed at once
Advanced(acc, row, user_id, next_year) ==
    [acc EXCEPT !.T = update_task_due_time(acc.T, row.id, user_id, next_year)]

\* a lazy advance of every task that is past due, whatever its classification
LazyAdvanceAnyTask(acc, row, user_id, now_ist) ==
    IF Before(row.due_time, now_ist)
    THEN Listed(Advanced(acc, row, user_id, AddYears(row.due_time, 1)),
                row, AddYears(row.due_time, 1), now_ist)
    ELSE Listed(acc, row, row.due_time, now_ist)

RECURSIVE NextFutureYear(_, _)
\* the first anniversary of due that is not before now_ist
NextFutureYear(due, now_ist) ==
    IF Before(due, now_ist) THEN NextFutureYear(AddYears(due, 1), now_ist)
    ELSE due

\* a lazy advance that catches up: as many years as it takes to reach now
LazyAdvanceCatchingUp(acc, row, user_id, now_ist) ==
    IF IsYearly(row) /\ Before(row.due_time, now_ist)
    THEN Listed(Advanced(acc, row, user_id,
                         NextFutureYear(row.due_time, now_ist)),
                row, NextFutureYear(row.due_time, now_ist), now_ist)
    ELSE Listed(acc, row, row.due_time, now_ist)

\* a lazy advance that does not ask whether the due time has passed
LazyAdvanceNotYetDue(acc, row, user_id, now_ist) ==
    IF IsYearly(row)
    THEN Listed(Advanced(acc, row, user_id, AddYears(row.due_time, 1)),
                row, AddYears(row.due_time, 1), now_ist)
    ELSE Listed(acc, row, row.due_time, now_ist)

\* lines 98-105 and 164-171: the lazy yearly advance, then time_left
LazyAdvance(acc, row, user_id, now_ist) ==
    IF IsYearly(row) /\ Before(row.due_time, now_ist)
    THEN Listed(Advanced(acc, row, user_id, AddYears(row.due_time, 1)),
                row, AddYears(row.due_time, 1), now_ist)
    ELSE Listed(acc, row, row.due_time, now_ist)

RECURSIVE PrioritizedLoop(_, _, _, _, _)
\* list_prioritized_tasks, lines 83-112
PrioritizedLoop(rows, i, acc, user_id, now_ist) ==
    IF i > Len(rows) THEN acc
    ELSE IF ClassifyRaises(rows[i])
    THEN [acc EXCEPT !.raised = TRUE]
    ELSE IF IsEvent(rows[i])
    THEN PrioritizedLoop(rows, i + 1, acc, user_id, now_ist)
    ELSE IF HasDueTime(rows[i])
    THEN PrioritizedLoop(rows, i + 1,
                         LazyAdvance(acc, rows[i], user_id, now_ist),
                         user_id, now_ist)
    ELSE PrioritizedLoop(rows, i + 1,
            [acc EXCEPT !.nodue =
                Append(acc.nodue, Entry(rows[i], FALSE, 0, NoDT))],
            user_id, now_ist)

RECURSIVE CountdownLoop(_, _, _, _, _)
\* get_countdown_events, lines 152-176
CountdownLoop(rows, i, acc, user_id, now_ist) ==
    IF i > Len(rows) THEN acc
    ELSE IF ~HasDueTime(rows[i])
    THEN CountdownLoop(rows, i + 1, acc, user_id, now_ist)
    ELSE IF ClassifyRaises(rows[i])
    THEN [acc EXCEPT !.raised = TRUE]
    ELSE IF IsEvent(rows[i])
    THEN CountdownLoop(rows, i + 1,
                       LazyAdvance(acc, rows[i], user_id, now_ist),
                       user_id, now_ist)
    ELSE CountdownLoop(rows, i + 1, acc, user_id, now_ist)

RECURSIVE InsertSorted(_, _)
\* e put behind every entry whose time_left is not larger
InsertSorted(q, e) ==
    IF q = << >> THEN << e >>
    ELSE IF Head(q).time_left <= e.time_left
    THEN << Head(q) >> \o InsertSorted(Tail(q), e)
    ELSE << e >> \o q

\* no sort at all: the entries stay in the order they were fetched
KeepFetchOrder(q, done) == q

RECURSIVE SortByTimeLeft(_, _)
\* list.sort(key=lambda x: x['time_left']): stable; done holds q[1..i-1] sorted
SortByTimeLeft(q, done) ==
    IF q = << >> THEN done
    ELSE SortByTimeLeft(Tail(q), InsertSorted(done, Head(q)))

LoopStart(T) == [T |-> T, due |-> << >>, nodue |-> << >>, raised |-> FALSE]

\* lines 114-116: what list_prioritized_tasks returns after its loop
PrioritizedResult(acc) ==
    [T      |-> acc.T,
     raised |-> acc.raised,
     items  |-> IF acc.raised THEN << >>
                ELSE SortByTimeLeft(acc.due, << >>) \o acc.nodue]

\* lines 178-179: what get_countdown_events returns after its loop
CountdownResult(acc) ==
    [T      |-> acc.T,
     raised |-> acc.raised,
     items  |-> IF acc.raised THEN << >> ELSE SortByTimeLeft(acc.due, << >>)]

\* TaskManager.list_prioritized_tasks: [T, raised, items]
list_prioritized_tasks(T, user_id, now_ist) ==
    PrioritizedResult(PrioritizedLoop(get_tasks(T, user_id, "False"), 1,
                                      LoopStart(T), user_id, now_ist))

\* TaskManager.get_countdown_events: [T, raised, items]
get_countdown_events(T, user_id, now_ist) ==
    CountdownResult(CountdownLoop(get_tasks(T, user_id, "False"), 1,
                                  LoopStart(T), user_id, now_ist))

(***************************************************************************)
(* TaskManager.mark_task_complete and delete_task: [T, msg].               *)
(***************************************************************************)
\* lines 199-209: which branch of the if/elif chain the pattern takes
PatternUnit(repeat_pattern) ==
    LET pattern == IF Truthy(repeat_pattern) THEN lower(repeat_pattern) ELSE ""
    IN  IF Contains("daily", pattern) THEN "daily"
        ELSE IF Contains("weekly", pattern) THEN "weekly"
        ELSE IF Contains("monthly", pattern) THEN "monthly"
        ELSE IF Contains("yearly", pattern) THEN "yearly"
        ELSE "none"

\* the same on the patterns of the model's requests, computed once
UnitOf == [q \in KnownPatterns \cup {Null} |-> PatternUnit(q)]

\* fixed offsets in place of calendar steps: a month of 30 and a year of 365 days
NextByFixedOffset(unit, current_due_time) ==
    CASE unit = "daily"   -> AddDays(current_due_time, 1)
      [] unit = "weekly"  -> AddDays(current_due_time, 7)
      [] unit = "monthly" -> AddDays(current_due_time, 30)
      [] unit = "yearly"  -> AddDays(current_due_time, 365)
      [] OTHER            -> NoDT

\* lines 202-209: the relativedelta of the branch taken
NextByUnit(unit, current_due_time) ==
    CASE unit = "daily"   -> AddDays(current_due_time, 1)
      [] unit = "weekly"  -> AddDays(current_due_time, 7)
      [] unit = "monthly" -> AddMonths(current_due_time, 1)
      [] unit = "yearly"  -> AddYears(current_due_time, 1)
      [] OTHER            -> NoDT

\* lines 199-209: the next occurrence, NoDT when the pattern names none
NextDueTime(current_due_time, repeat_pattern) ==
    NextByUnit(UnitOf[repeat_pattern], current_due_time)

\* lines 190-216 on the task found
CompleteTask(T, task, user_id, next_due_time) ==
    IF task.is_recurring /\ HasDueTime(task) /\ next_due_time # NoDT
    THEN [T   |-> reset_recurring_task(T, task.id, user_id, next_due_time),
          msg |-> "Task '" \o task.title
                    \o "' completed for today. Next one scheduled for "
                    \o Strftime(next_due_time) \o "."]
    ELSE [T   |-> update_task_status(T, task.id, user_id, TRUE),
          msg |-> "Task '" \o task.title \o "' marked as complete."]

\* lines 186-188 on the rows get_task_by_id found
CompleteFound(T, found, user_id) ==
    IF found = << >>
    THEN [T |-> T, msg |-> "Task not found."]
    ELSE CompleteTask(T, found[1], user_id,
                      NextDueTime(found[1].due_time, found[1].repeat_pattern))

mark_task_complete(T, task_id, user_id) ==
    CompleteFound(T, get_task_by_id(T, task_id, user_id), user_id)

delete_task(T, task_id, user_id) ==
    [T   |-> db_delete_task(T, task_id, user_id),
     msg |-> "Task ID " \o IntStr(task_id) \o " has been deleted."]

(***************************************************************************)
(* TaskManager.get_daily_summary: it writes nothing.  The result is        *)
(* [raised, completed, pending, completion_rate, overdue, urgent], the two *)
(* last being the ids listed in the overdue and the urgent section.        *)
(***************************************************************************)
\* round(num / den): Python rounds a half to the even neighbour
RoundHalfEven(num, den) ==
    LET q == num \div den
        r == num % den
    IN  IF 2 * r < den THEN q
        ELSE IF 2 * r > den THEN q + 1
        ELSE IF q % 2 = 0 THEN q ELSE q + 1

RECURSIVE IdsOf(_)
IdsOf(rows) == IF rows = << >> THEN << >> ELSE << Head(rows).id >> \o IdsOf(Tail(rows))

\* row.due_time - now_ist, in minutes
TimeLeft(row, now_ist) == ToMinutes(row.due_time) - ToMinutes(now_ist)

\* lines 238-251: the pending tasks with due_time < now_ist
OverdueOf(pending, now_ist) ==
    SelectRows(pending,
       { i \in 1..Len(pending) : HasDueTime(pending[i])
                                   /\ TimeLeft(pending[i], now_ist) < 0 }, 1)

\* lines 238-253: the pending tasks due within the next 24 hours
UrgentOf(pending, now_ist) ==
    SelectRows(pending,
       { i \in 1..Len(pending) : HasDueTime(pending[i])
                                   /\ TimeLeft(pending[i], now_ist) >= 0
                                   /\ TimeLeft(pending[i], now_ist) < 1440 }, 1)

\* the rate cut off instead of rounded
CompletionRateTruncated(completed, pending) ==
    IF completed + pending > 0
    THEN (completed * 100) \div (completed + pending)
    ELSE 0

\* lines 230-231: total and completion_rate
CompletionRate(completed, pending) ==
    IF completed + pending > 0
    THEN RoundHalfEven(completed * 100, completed + pending)
    ELSE 0

\* lines 230-261 on the completed and the pending tasks
SummaryOf(completed, pending, now_ist) ==
    [raised          |-> FALSE,
     completed       |-> Len(completed),
     pending         |-> Len(pending),
     completion_rate |-> CompletionRate(Len(completed), Len(pending)),
     overdue         |-> IdsOf(OverdueOf(pending, now_ist)),
     urgent          |-> IdsOf(UrgentOf(pending, now_ist))]

SummaryRaised ==
    [raised |-> TRUE, completed |-> 0, pending |-> 0, completion_rate |-> 0,
     overdue |-> << >>, urgent |-> << >>]

\* lines 225-228 on the rows get_tasks returned
SummaryOfAll(all_tasks, now_ist) ==
    IF \E i \in 1..Len(all_tasks) : ~all_tasks[i].is_completed
                                       /\ ClassifyRaises(all_tasks[i])
    THEN SummaryRaised
    ELSE SummaryOf(
           SelectRows(all_tasks,
              { i \in 1..Len(all_tasks) : all_tasks[i].is_completed }, 1),
           SelectRows(all_tasks,
              { i \in 1..Len(all_tasks) : ~all_tasks[i].is_completed
                                            /\ ~IsEvent(all_tasks[i]) }, 1),
           now_ist)

get_daily_summary(T, user_id, now_ist) ==
    SummaryOfAll(get_tasks(T, user_id, "None"), now_ist)

(***************************************************************************)
(* TaskManager.add_task_from_natural_language.  The result is              *)
(*   [raised, T, msg, calls]                                               *)
(* raised: parse_time_manually's ValueError left the function (line 113 of *)
(* llm_utils.py is outside every try); calls: generate_content calls made. *)
(* The messages are the code's without their leading emoji.                *)
(***************************************************************************)
\* lines 35-54: the due_time stored, as a wall clock in IST; NoDT for None
NormalizeDue(due) ==
    IF due.kind # "iso" THEN NoDT             \* falsy, or fromisoformat raised
    ELSE IF due.aware THEN AsIST(due)         \* astimezone(self.ist)
    ELSE due.dt                               \* self.ist.localize

\* lines 58-70
SuccessMessage(title, due_time) ==
    "Task '" \o title \o "'"
      \o (IF due_time # NoDT THEN " scheduled for " \o Strftime(due_time) ELSE "")
      \o " added successfully."

EmptyInputMessage == "Please enter a task description."

NoTitleMessage ==
    "AI Error: The AI could not determine a title for your task. Please try rephrasing."

AddResult(raised, T, msg, calls) ==
    [raised |-> raised, T |-> T, msg |-> msg, calls |-> calls]

\* lines 56-70: the INSERT and the message
Persist(T, id, task_data, due_time, user_id, calls) ==
    AddResult(FALSE,
              db_add_task(T, id, task_data, due_time, user_id),
              SuccessMessage(task_data.title, due_time), calls)

\* the same without the title test of lines 32-33
AddParsedAnyTitle(T, id, user_id, current_time_ist, parsed) ==
    IF parsed.kind = "error"
    THEN AddResult(FALSE, T, "AI Error: " \o parsed.error, parsed.calls)
    ELSE Persist(T, id, parsed.data, NormalizeDue(parsed.data.due_time),
                 user_id, parsed.calls)

\* lines 29-70 on parse_task_with_gemini's result
AddParsed(T, id, user_id, current_time_ist, parsed) ==
    IF parsed.kind = "error"
    THEN AddResult(FALSE, T, "AI Error: " \o parsed.error, parsed.calls)
    ELSE IF ~Truthy(parsed.data.title)
    THEN AddResult(FALSE, T, NoTitleMessage, parsed.calls)
    ELSE Persist(T, id, parsed.data, NormalizeDue(parsed.data.due_time),
                 user_id, parsed.calls)

\* lines 24-27, with parse_time_manually's result at llm_utils.py line 113
AddManual(T, id, model_loaded, user_input, user_id, current_time_ist, response, manual) ==
    IF user_input = ""
    THEN AddResult(FALSE, T, EmptyInputMessage, 0)
    ELSE IF model_loaded /\ manual.kind = "raise"
    THEN AddResult(TRUE, T, "", 0)
    ELSE AddParsed(T, id, user_id, current_time_ist,
                   parse_task_with_gemini(model_loaded, user_input,
                                          current_time_ist, manual, response))

add_task_from_natural_language(T, id, model_loaded, user_input, user_id, current_time_ist, response) ==
    AddManual(T, id, model_loaded, user_input, user_id, current_time_ist, response, parse_time_manually(user_input, current_time_ist))

(***************************************************************************)
(* The state machine.                                                      *)
(*   tasks         the tasks table                                         *)
(*   next_id       the next value of the SERIAL id                         *)
(*   now           datetime.now(ist): the wall clock, which only advances  *)
(*   ticks         how often the clock has advanced along the Timeline     *)
(*   advances      how many completions have moved a recurring task on     *)
(*   model_loaded  llm_utils.model is not None (set once, at import)       *)
(*   requests      the add requests of this run: the texts the users type, *)
(*                 each with the extraction service's answer to it         *)
(*   ret           the last call: its name, arguments and outcome          *)
(***************************************************************************)
VARIABLES tasks, next_id, now, ticks, advances, model_loaded, requests, ret

vars == << tasks, next_id, now, ticks, advances, model_loaded, requests, ret >>

\* bounds of the model
MaxTasks == 2
MaxAdvances == 1

Users == {1, 2}

\* the clock readings of a run: a year, a day and an hour pass
Timeline == << Start, AddMinutes(Start, 366 * 1440 + 60) >>

NoItems == << >>

NoSummary ==
    [raised |-> FALSE, completed |-> 0, pending |-> 0, completion_rate |-> 0,
     overdue |-> << >>, urgent |-> << >>]

Ret(op, user_id, task_id, raised, msg, calls, items, summary) ==
    [op |-> op, user_id |-> user_id, task_id |-> task_id, raised |-> raised,
     msg |-> msg, calls |-> calls, items |-> items, summary |-> summary,
     text |-> ""]

Init ==
    /\ tasks = << >>
    /\ next_id = 1
    /\ now = Start
    /\ ticks = 0
    /\ advances = 0
    /\ model_loaded \in BOOLEAN
    /\ requests \in Scenarios
    /\ ret = Ret("init", 0, 0, FALSE, "", 0, NoItems, NoSummary)

\* a completion that moves a due time on counts as an advance
Moved(T) == \E i \in 1..Len(tasks) : T[i].due_time # tasks[i].due_time

\* streamlit_app.py line 150: the user submits a text; the service answers it
AddTask ==
    \E r \in requests :
    \E out \in {add_task_from_natural_language(tasks, next_id, model_loaded, r.text, r.user_id, now, r.response)} :
       /\ next_id <= MaxTasks
       /\ tasks' = out.T
       /\ next_id' = IF out.T # tasks THEN next_id + 1 ELSE next_id
       /\ ret' = [Ret("add", r.user_id, 0, out.raised, out.msg, out.calls,
                      NoItems, NoSummary)
                    EXCEPT !.text = r.text]
       /\ UNCHANGED << now, ticks, advances, model_loaded, requests >>

\* streamlit_app.py line 161: the task list is rendered
ListPrioritized ==
    \E user_id \in Users :
    \E out \in {list_prioritized_tasks(tasks, user_id, now)} :
       /\ tasks' = out.T
       /\ ret' = Ret("list", user_id, 0, out.raised, "", 0, out.items, NoSummary)
       /\ UNCHANGED << next_id, now, ticks, advances, model_loaded, requests >>

\* streamlit_app.py line 192: the countdown section is rendered
Countdown ==
    \E user_id \in Users :
    \E out \in {get_countdown_events(tasks, user_id, now)} :
       /\ tasks' = out.T
       /\ ret' = Ret("countdown", user_id, 0, out.raised, "", 0, out.items,
                     NoSummary)
       /\ UNCHANGED << next_id, now, ticks, advances, model_loaded, requests >>

\* streamlit_app.py line 170: the Complete button of a task
MarkComplete ==
    \E user_id \in Users, task_id \in 1..MaxTasks :
    \E out \in {mark_task_complete(tasks, task_id, user_id)} :
       /\ Moved(out.T) => advances < MaxAdvances
       /\ tasks' = out.T
       /\ advances' = IF Moved(out.T) THEN advances + 1 ELSE advances
       /\ ret' = Ret("complete", user_id, task_id, FALSE, out.msg, 0,
                     NoItems, NoSummary)
       /\ UNCHANGED << next_id, now, ticks, model_loaded, requests >>

\* streamlit_app.py lines 186 and 209: the Delete button of a task or an event
DeleteTask ==
    \E user_id \in Users, task_id \in 1..MaxTasks :
    \E out \in {delete_task(tasks, task_id, user_id)} :
       /\ tasks' = out.T
       /\ ret' = Ret("delete", user_id, task_id, FALSE, out.msg, 0,
                     NoItems, NoSummary)
       /\ UNCHANGED << next_id, now, ticks, advances, model_loaded, requests >>

\* TaskManager.get_daily_summary is called
DailySummary ==
    \E user_id \in Users :
    \E out \in {get_daily_summary(tasks, user_id, now)} :
       /\ ret' = Ret("summary", user_id, 0, out.raised, "", 0, NoItems, out)
       /\ UNCHANGED << tasks, next_id, now, ticks, advances, model_loaded, requests >>

\* time passes
Tick ==
    /\ ticks + 1 < Len(Timeline)
    /\ now' = Timeline[ticks + 2]
    /\ ticks' = ticks + 1
    /\ UNCHANGED << tasks, next_id, advances, model_loaded, requests, ret >>

Next ==
    \/ AddTask
    \/ ListPrioritized
    \/ Countdown
    \/ MarkComplete
    \/ DeleteTask
    \/ DailySummary
    \/ Tick

Spec == Init /\ [][Next]_vars
(***************************************************************************)
(* The intake of one text: parse_task_with_gemini and the add that follows *)
(* it, on a grid of texts and of due_time strings the service may answer   *)
(* with.  The run holds one request; the clock stands at Start.            *)
(***************************************************************************)
\* texts without a clock expression, with one, and with a relative marker
IntakeTexts ==
    { "submit report", "call mom at 9 pm", "meeting in 2 hours",
      "follow up after lunch" }

\* due_time strings around Start (2025-01-10 08:00 IST) and around 21:00,
\* the time "9 pm" resolves to: naive ones and ones with a UTC offset
IntakeDues ==
    { NullDue, InvalidDue,
      NaiveIso(DT(2025, 1, 8, 10, 0)),
      NaiveIso(DT(2025, 1, 9, 21, 0)),
      NaiveIso(DT(2025, 1, 10, 8, 59)),
      NaiveIso(DT(2025, 1, 10, 9, 0)),
      NaiveIso(DT(2025, 1, 10, 21, 0)),
      NaiveIso(DT(2025, 1, 11, 9, 0)),
      NaiveIso(DT(2025, 1, 11, 9, 1)),
      AwareIso(DT(2025, 1, 10, 21, 0), IST_OFFSET),
      AwareIso(DT(2025, 1, 8, 10, 0), IST_OFFSET),
      AwareIso(DT(2025, 1, 9, 21, 0), 0),
      AwareIso(DT(2025, 1, 10, 15, 30), 0),
      AwareIso(DT(2025, 1, 12, 10, 0), -300) }

IntakeNotes == { Null, "", "bring the documents" }

IntakeRequests ==
    { Request(1, t, Candidate("Task", d, "Work", FALSE, Null, n)) :
        t \in IntakeTexts, d \in IntakeDues, n \in IntakeNotes }

\* llm_utils.py lines 96-244 with the call of line 113: the ValueError of
\* parse_time_manually leaves parse_task_with_gemini
ParseOutcome(loaded, user_input, current_time_ist, response, manual) ==
    IF loaded /\ manual.kind = "raise"
    THEN [kind |-> "raise", calls |-> 0]
    ELSE parse_task_with_gemini(loaded, user_input, current_time_ist, manual,
                                response)

InitIntake ==
    /\ tasks = << >>
    /\ next_id = 1
    /\ now = Start
    /\ ticks = 0
    /\ advances = 0
    /\ model_loaded = TRUE
    /\ \E r \in IntakeRequests : requests = {r}
    /\ ret = Ret("init", 0, 0, FALSE, "", 0, NoItems, NoSummary)

\* parse_task_with_gemini is called on the text; the service answers it
ParseTask ==
    \E r \in requests :
    \E out \in {ParseOutcome(model_loaded, r.text, now, r.response,
                             parse_time_manually(r.text, now))} :
       /\ ret' = [op |-> "parse", user_id |-> r.user_id, text |-> r.text,
                  value |-> out]
       /\ UNCHANGED << tasks, next_id, now, ticks, advances, model_loaded,
                       requests >>

NextIntake ==
    \/ ParseTask
    \/ AddTask

SpecIntake == InitIntake /\ [][NextIntake]_vars

(***************************************************************************)
(* parse_time_manually called on its own: 12-hour clock phrases built from *)
(* their parts, and other texts, at reference timestamps that lie before   *)
(* and after noon and at the end of a month, of February and of a year.    *)
(***************************************************************************)
ResolveClocks ==
    { Start,
      DT(2025, 1, 31, 23, 59),
      DT(2024, 2, 28, 12, 0),
      DT(2025, 2, 28, 21, 30),
      DT(2024, 12, 31, 0, 0),
      DT(2025, 6, 15, 12, 0) }

Hours12   == 1..12
Minutes   == 0..59
Meridiems == { "am", "pm" }

\* "H am" / "H:MM pm": the hour as written, the minute with two digits
ClockPhrase(hour, minute, meridiem, with_minute) ==
    IF with_minute
    THEN IntStr(hour) \o ":" \o Pad2(minute) \o " " \o meridiem
    ELSE IntStr(hour) \o " " \o meridiem

\* texts with a 24-hour time, an o'clock, an evening word, a value out of
\* range, or no time at all
ClockTexts ==
    { "21:30", "0:00", "23:59", "9 o'clock", "12 oclock", "dinner at 8:00",
      "meet at 7:45 tonight", "Call Mom at 9 PM", "standup at 25:30",
      "lunch at 13 pm", "meet at 9:75", "call the doctor tomorrow" }

\* texts with 'in N hours' / 'in N minutes'
RelativeTexts == { "meeting in 2 hours", "leave in 45 minutes" }

\* a call of parse_time_manually: the text, the parts it was built from
\* (meridiem "" for a text taken as it is) and, once the call is made
\* (op "resolve"), what parse_time_manually returned
Resolved(op, text, hour, minute, meridiem, value) ==
    [op |-> op, text |-> text, hour |-> hour, minute |-> minute,
     meridiem |-> meridiem, value |-> value]

\* the calls on a 12-hour clock phrase
PhraseInputs ==
    { Resolved("input", ClockPhrase(p[1], p[2], p[3], p[4]), p[1],
               IF p[4] THEN p[2] ELSE 0, p[3], ManualNone) :
        p \in (Hours12 \X Minutes \X Meridiems \X {TRUE})
                 \cup (Hours12 \X {0} \X Meridiems \X {FALSE}) }

\* the calls on a text as it is
TextInputs ==
    { Resolved("input", text, 0, 0, "", ManualNone) :
        text \in ClockTexts \cup RelativeTexts }

InitResolve ==
    /\ tasks = << >>
    /\ next_id = 1
    /\ now \in ResolveClocks
    /\ ticks = 0
    /\ advances = 0
    /\ model_loaded = TRUE
    /\ requests = {}
    /\ ret \in PhraseInputs \cup TextInputs

\* parse_time_manually(user_input, current_time_ist) is called
ResolveTime ==
    /\ ret.op = "input"
    /\ ret' = [ret EXCEPT !.op = "resolve",
                          !.value = parse_time_manually(ret.text, now)]
    /\ UNCHANGED << tasks, next_id, now, ticks, advances, model_loaded,
                    requests >>

NextResolve == ResolveTime

SpecResolve == InitResolve /\ [][NextResolve]_vars

(***************************************************************************)
(* get_daily_summary on tables of one user with any number of completed    *)
(* tasks, of pending tasks and of events that are not completed.           *)
(***************************************************************************)
\* the most tasks of a kind in the table
MaxCount == 5

\* a row of user 1 without a due_time: an event, or an ordinary task
DigestRow(id, is_completed, event) ==
    [id             |-> id,
     user_id        |-> 1,
     title          |-> IF event THEN "Dad's Birthday" ELSE "Pay Bills",
     due_time       |-> NoDT,
     category       |-> IF event THEN "Personal" ELSE "Finance",
     is_completed   |-> is_completed,
     is_recurring   |-> FALSE,
     repeat_pattern |-> Null,
     user_notes     |-> Null]

\* c completed tasks, then p pending tasks, then e events not completed
DigestTable(c, p, e) ==
    [i \in 1..(c + p + e) |-> DigestRow(i, i <= c, i > c + p)]

InitDigest ==
    /\ \E c \in 0..MaxCount, p \in 0..MaxCount, e \in 0..1 :
          /\ tasks = DigestTable(c, p, e)
          /\ next_id = c + p + e + 1
    /\ now = Start
    /\ ticks = 0
    /\ advances = 0
    /\ model_loaded = TRUE
    /\ requests = {}
    /\ ret = Ret("init", 0, 0, FALSE, "", 0, NoItems, NoSummary)

NextDigest == DailySummary

SpecDigest == InitDigest /\ [][NextDigest]_vars

(***************************************************************************)
(* Recurrence advance on one stored task of user 1 that is due on the      *)
(* first, the middle or one of the last days of a month of 2023, 2024 (a   *)
(* leap year) or 2025: completion, and the lazy advance of the listings.   *)
(***************************************************************************)
\* due times at 09:DD on day DD, so that a due_time tells the day it was
\* first set to
CalendarDues ==
    { dt \in { DT(y, m, d, 9, d) :
                 y \in 2023..2025, m \in 1..12, d \in {1, 15, 28, 29, 30, 31} } :
        dt.day <= DaysInMonth(dt.year, dt.month) }

\* title and category: an ordinary task, an event that is yearly-recurring,
\* and a task that is yearly-recurring and no event
CalendarKinds ==
    { << "Pay Rent", "Finance" >>, << "Dad's Birthday", "Personal" >>,
      << "Newborn Checkup", "Health" >> }

CalendarRow(kind, due_time, repeat_pattern) ==
    [id             |-> 1,
     user_id        |-> 1,
     title          |-> kind[1],
     due_time       |-> due_time,
     category       |-> kind[2],
     is_completed   |-> FALSE,
     is_recurring   |-> TRUE,
     repeat_pattern |-> repeat_pattern,
     user_notes     |-> Null]

InitCalendar ==
    /\ \E kind \in CalendarKinds, due_time \in CalendarDues,
          repeat_pattern \in {"monthly", "yearly"} :
          tasks = << CalendarRow(kind, due_time, repeat_pattern) >>
    /\ next_id = 2
    /\ now = Start
    /\ ticks = 0
    /\ advances = 0
    /\ model_loaded = TRUE
    /\ requests = {}
    /\ ret = Ret("init", 0, 0, FALSE, "", 0, NoItems, NoSummary)

NextCalendar ==
    \/ MarkComplete
    \/ ListPrioritized
    \/ Countdown

SpecCalendar == InitCalendar /\ [][NextCalendar]_vars

(***************************************************************************)
(* The two views over a stored table of two tasks: task 1 is user 1's,     *)
(* task 2 is either user's; each is an event or not, yearly-recurring or   *)
(* not, with or without a due_time, complete or not.                       *)
(***************************************************************************)
\* title and category: an event that is yearly-recurring, an ordinary task,
\* a task that is yearly-recurring and no event
ViewKinds ==
    { << "Dad's Birthday", "Personal" >>, << "Read Book", "Personal" >>,
      << "Newborn Checkup", "Health" >> }

\* no due_time, one in the past and one in the future of Start
ViewDues == { NoDT, DT(2025, 1, 9, 9, 0), DT(2025, 1, 10, 18, 0) }

ViewRow(id, user_id, kind, due_time, is_completed) ==
    [id             |-> id,
     user_id        |-> user_id,
     title          |-> kind[1],
     due_time       |-> due_time,
     category       |-> kind[2],
     is_completed   |-> is_completed,
     is_recurring   |-> FALSE,
     repeat_pattern |-> Null,
     user_notes     |-> Null]

ViewRows(id, users) ==
    { ViewRow(id, u, k, d, c) :
        u \in users, k \in ViewKinds, d \in ViewDues, c \in BOOLEAN }

InitViews ==
    /\ \E r1 \in ViewRows(1, {1}), r2 \in ViewRows(2, Users) :
          tasks = << r1, r2 >>
    /\ next_id = 3
    /\ now = Start
    /\ ticks = 0
    /\ advances = 0
    /\ model_loaded = TRUE
    /\ requests = {}
    /\ ret = Ret("init", 0, 0, FALSE, "", 0, NoItems, NoSummary)

NextViews ==
    \/ ListPrioritized
    \/ Countdown

SpecViews == InitViews /\ [][NextViews]_vars

(***************************************************************************)
(* Two calls of user 1 in flight on the one stored task, a recurring task  *)
(* that was first due on 1 June 2023.  Every statement of TaskDatabase     *)
(* runs and commits on a connection of its own (_execute_query), so a call *)
(* is two steps: its SELECT, and the UPDATE it makes from the rows it has  *)
(* read.  In this specification requests holds the calls in flight, each   *)
(*   [op, pc, seen]: the operation, "read" / "write" / "done", and the     *)
(*   rows its SELECT returned.                                             *)
(***************************************************************************)
RaceDue == DT(2023, 6, 1, 9, 0)

\* an ordinary task, a task that the prioritized list advances lazily, and
\* an event that the countdown advances lazily; with each of the patterns
RaceRows ==
    { [id             |-> 1,
       user_id        |-> 1,
       title          |-> kind[1],
       due_time       |-> RaceDue,
       category       |-> kind[2],
       is_completed   |-> FALSE,
       is_recurring   |-> TRUE,
       repeat_pattern |-> repeat_pattern,
       user_notes     |-> Null] :
        kind \in { << "Take Medicine", "Health" >>,
                   << "Newborn Checkup", "Health" >>,
                   << "Dad's Birthday", "Personal" >> },
        repeat_pattern \in {"daily", "weekly", "monthly", "yearly"} }

InFlight(op) == [op |-> op, pc |-> "read", seen |-> << >>]

\* mark_task_complete(1, 1) and a second call: the same, or a listing
InitRace ==
    /\ \E row \in RaceRows : tasks = << row >>
    /\ \E op \in {"complete", "list", "countdown"} :
          requests = << InFlight("complete"), InFlight(op) >>
    /\ next_id = 2
    /\ now = Start
    /\ ticks = 0
    /\ advances = 0
    /\ model_loaded = TRUE
    /\ ret = Ret("init", 0, 0, FALSE, "", 0, NoItems, NoSummary)

\* task_manager.py lines 186, 77 and 148: the call's SELECT
ReadTask ==
    \E k \in DOMAIN requests :
       /\ requests[k].pc = "read"
       /\ requests' =
             [requests EXCEPT
                ![k].pc = "write",
                ![k].seen = IF requests[k].op = "complete"
                            THEN get_task_by_id(tasks, 1, 1)
                            ELSE get_tasks(tasks, 1, "False")]
       /\ UNCHANGED << tasks, next_id, now, ticks, advances, model_loaded, ret >>

\* what the call does with the rows it has read, on the table as it is now:
\* lines 187-216, lines 83-116, lines 152-179
WriteOf(call, T, now_ist) ==
    CASE call.op = "complete" ->
            CompleteFound(T, call.seen, 1)
      [] call.op = "list" ->
            PrioritizedResult(PrioritizedLoop(call.seen, 1, LoopStart(T), 1,
                                              now_ist))
      [] call.op = "countdown" ->
            CountdownResult(CountdownLoop(call.seen, 1, LoopStart(T), 1,
                                          now_ist))

\* the rest of the call: its UPDATE, if it makes one, and its return
WriteBack ==
    \E k \in DOMAIN requests :
    \E out \in {WriteOf(requests[k], tasks, now)} :
       /\ requests[k].pc = "write"
       /\ tasks' = out.T
       /\ requests' = [requests EXCEPT ![k].pc = "done"]
       /\ ret' = IF requests[k].op = "complete"
                 THEN Ret("complete", 1, 1, FALSE, out.msg, 0, NoItems,
                          NoSummary)
                 ELSE Ret(requests[k].op, 1, 0, out.raised, "", 0, out.items,
                          NoSummary)
       /\ UNCHANGED << next_id, now, ticks, advances, model_loaded >>

NextRace ==
    \/ ReadTask
    \/ WriteBack

SpecRace == InitRace /\ [][NextRace]_vars

(***************************************************************************)
(* Properties.  A step is a call of an operation when the clock does not   *)
(* move; ret' then holds the call and its outcome, tasks the table before  *)
(* it and tasks' the table after it.                                       *)
(***************************************************************************)
Called(op) == ticks' = ticks /\ ret'.op = op

\* the table T holds a row with this id
Stored(T, id) == \E i \in 1..Len(T) : T[i].id = id

\* the row of T with this id
RowOf(T, id) == T[CHOOSE i \in 1..Len(T) : T[i].id = id]

\* the operations of C1 that a user runs against another user's task
ForeignOps == {"complete", "delete", "list", "countdown", "summary"}

\* C1: cross-user isolation.  Whatever mark_task_complete, delete_task,
\* list_prioritized_tasks, get_countdown_events or get_daily_summary user B
\* calls, every task of another user A is stored afterwards with every field
\* unchanged, and mark_task_complete(t.id, B) on A's task t returns the
\* not-found message.
C1_CrossUserIsolation ==
    [][\A i \in 1..Len(tasks) :
          (ticks' = ticks /\ ret'.op \in ForeignOps
             /\ ret'.user_id # tasks[i].user_id)
          => /\ \E j \in 1..Len(tasks') : tasks'[j] = tasks[i]
             /\ (ret'.op = "complete" /\ ret'.task_id = tasks[i].id)
                  => ret'.msg = "Task not found."]_vars

\* a user has just tried to complete a stored task of another user
C1_Witness ==
    /\ ret.op = "complete"
    /\ ret.msg = "Task not found."
    /\ \E i \in 1..Len(tasks) :
          /\ tasks[i].id = ret.task_id
          /\ tasks[i].user_id # ret.user_id
          /\ tasks[i].is_recurring

\* the repeat patterns C2 names, and the calendar step of each
NamedPatterns == {"daily", "weekly", "monthly", "yearly"}

OneStepLater(due_time, pattern) ==
    CASE pattern = "daily"   -> AddMinutes(due_time, 1440)
      [] pattern = "weekly"  -> AddMinutes(due_time, 7 * 1440)
      [] pattern = "monthly" -> AddMonths(due_time, 1)
      [] pattern = "yearly"  -> AddYears(due_time, 1)

\* a recurring task with a due_time and one of the named patterns
RecursOnSchedule(row) ==
    /\ row.is_recurring
    /\ row.due_time # NoDT
    /\ row.repeat_pattern # Null
    /\ lower(row.repeat_pattern) \in NamedPatterns

\* C2: completing a recurring task.  mark_task_complete on a stored task of
\* the caller that is recurring, has a due_time and a repeat_pattern of
\* daily, weekly, monthly or yearly moves the stored due_time on by exactly
\* one day, week, month or year and leaves is_completed false; and in every
\* reachable state no such task is stored with is_completed true.
C2_RecurringCompletion ==
    /\ [][\A i \in 1..Len(tasks) :
             (Called("complete") /\ ret'.task_id = tasks[i].id
                /\ ret'.user_id = tasks[i].user_id
                /\ RecursOnSchedule(tasks[i]))
             => /\ Len(tasks') = Len(tasks)
                /\ tasks'[i] =
                     [tasks[i] EXCEPT
                        !.due_time = OneStepLater(tasks[i].due_time,
                                        lower(tasks[i].repeat_pattern)),
                        !.is_completed = FALSE]]_vars
    /\ [](\A i \in 1..Len(tasks) :
             RecursOnSchedule(tasks[i]) => ~tasks[i].is_completed)

\* a recurring monthly task has just been completed by its owner
C2_Witness ==
    /\ ret.op = "complete"
    /\ ret.msg # "Task not found."
    /\ \E i \in 1..Len(tasks) :
          /\ tasks[i].id = ret.task_id
          /\ tasks[i].user_id = ret.user_id
          /\ RecursOnSchedule(tasks[i])
          /\ lower(tasks[i].repeat_pattern) = "monthly"
          /\ ~tasks[i].is_completed

\* the operations C3 lets follow a completion
AfterCompletionOps == {"list", "countdown", "summary", "complete"}

\* C3: completing a non-recurring task is terminal.  mark_task_complete on a
\* stored task of the caller with is_recurring false sets is_completed and
\* leaves due_time as it is; and no list, countdown, digest or
\* mark_task_complete call of any user sets is_completed of a completed
\* non-recurring task back or changes its due_time.
C3_NonRecurringTerminal ==
    [][\A i \in 1..Len(tasks) :
          /\ (Called("complete") /\ ret'.task_id = tasks[i].id
                /\ ret'.user_id = tasks[i].user_id
                /\ ~tasks[i].is_recurring)
             => /\ Len(tasks') = Len(tasks)
                /\ tasks'[i] = [tasks[i] EXCEPT !.is_completed = TRUE]
          /\ (ticks' = ticks /\ ret'.op \in AfterCompletionOps
                /\ ~tasks[i].is_recurring /\ tasks[i].is_completed)
             => /\ Len(tasks') = Len(tasks)
                /\ tasks'[i].is_completed
                /\ tasks'[i].due_time = tasks[i].due_time]_vars

\* the owner lists their tasks while a completed non-recurring task of
\* theirs is classified yearly-recurring and past due
C3_Witness ==
    /\ ret.op = "list"
    /\ \E i \in 1..Len(tasks) :
          /\ tasks[i].user_id = ret.user_id
          /\ ~tasks[i].is_recurring
          /\ tasks[i].is_completed
          /\ tasks[i].due_time # NoDT
          /\ IsYearly(tasks[i])
          /\ Before(tasks[i].due_time, now)

\* the two listings
Listings == {"list", "countdown"}

\* the listing op goes through this row: the row is the caller's, incomplete
\* and has a due_time, and it is no event (list) or an event (countdown)
ListedWithDue(row, op, user_id) ==
    /\ row.user_id = user_id
    /\ ~row.is_completed
    /\ row.due_time # NoDT
    /\ row.category # Null
    /\ IsEvent(row) = (op = "countdown")

\* the same time of the same day one year on; Feb 29 goes to Feb 28
OneYearLater(d) ==
    DT(d.year + 1, d.month,
       IF d.month = 2 /\ d.day = 29 /\ ~IsLeap(d.year + 1) THEN 28 ELSE d.day,
       d.hour, d.minute)

\* the entries of a listing's result for the task with this id
EntriesOf(items, id) == { k \in 1..Len(items) : items[k].id = id }

\* C4: lazy advance on read.  When list_prioritized_tasks or
\* get_countdown_events lists a task classified yearly-recurring whose
\* due_time is strictly before now, the call stores due_time + 1 year (one
\* year, also when that is still in the past) and returns the task once, with
\* the time_left of the advanced due_time; a yearly-recurring task whose
\* due_time is not before now is left as it is.
C4_LazyAdvanceOnRead ==
    [][\A i \in 1..Len(tasks) :
          (ticks' = ticks /\ ret'.op \in Listings /\ ~ret'.raised
             /\ ListedWithDue(tasks[i], ret'.op, ret'.user_id)
             /\ IsYearly(tasks[i]))
          => /\ Len(tasks') = Len(tasks)
             /\ IF Before(tasks[i].due_time, now)
                THEN /\ tasks'[i] =
                          [tasks[i] EXCEPT
                             !.due_time = OneYearLater(tasks[i].due_time)]
                     /\ Cardinality(EntriesOf(ret'.items, tasks[i].id)) = 1
                     /\ \A k \in EntriesOf(ret'.items, tasks[i].id) :
                           /\ ret'.items[k].due_time = tasks'[i].due_time
                           /\ ret'.items[k].time_left =
                                ToMinutes(OneYearLater(tasks[i].due_time))
                                  - ToMinutes(now)
                ELSE tasks'[i] = tasks[i]]_vars

\* a listing has just advanced a yearly-recurring task by one year, to a date
\* that is still in the past
C4_Witness ==
    /\ ret.op \in Listings
    /\ \E k \in 1..Len(ret.items) :
          /\ ret.items[k].timed
          /\ ret.items[k].time_left < 0
          /\ Stored(tasks, ret.items[k].id)
          /\ IsYearly(RowOf(tasks, ret.items[k].id))
          /\ RowOf(tasks, ret.items[k].id).due_time = ret.items[k].due_time

\* the repeat patterns C5 names
ShortPatterns == {"daily", "weekly", "monthly"}

HasShortPattern(row) ==
    row.repeat_pattern # Null /\ lower(row.repeat_pattern) \in ShortPatterns

\* C5 as the specification states it: no listing changes the stored due_time
\* of a task whose repeat_pattern is daily, weekly or monthly, whatever its
\* title and category are.
C5_PatternDecides ==
    [][\A i \in 1..Len(tasks) :
          (ticks' = ticks /\ ret'.op \in Listings /\ HasShortPattern(tasks[i]))
          => /\ Len(tasks') = Len(tasks)
             /\ tasks'[i].due_time = tasks[i].due_time]_vars

\* C5: lazy advance follows the classification of title and category, not
\* the repeat_pattern.  No listing changes the stored due_time of a task
\* whose repeat_pattern is daily, weekly or monthly, however far past due it
\* is, unless its title and category classify it as yearly-recurring.
C5_ClassificationDecides ==
    [][\A i \in 1..Len(tasks) :
          (ticks' = ticks /\ ret'.op \in Listings /\ HasShortPattern(tasks[i])
             /\ (tasks[i].category = Null \/ ~IsYearly(tasks[i])))
          => /\ Len(tasks') = Len(tasks)
             /\ tasks'[i].due_time = tasks[i].due_time]_vars

\* a listing has just returned a past-due daily, weekly or monthly task that
\* is not classified yearly-recurring
C5_Witness ==
    /\ ret.op \in Listings
    /\ \E k \in 1..Len(ret.items) :
          /\ ret.items[k].timed
          /\ ret.items[k].time_left < 0
          /\ Stored(tasks, ret.items[k].id)
          /\ HasShortPattern(RowOf(tasks, ret.items[k].id))
          /\ ~IsYearly(RowOf(tasks, ret.items[k].id))

\* the positions of the rows list_prioritized_tasks has to return
Listable(user_id) ==
    { i \in 1..Len(tasks) : /\ tasks[i].user_id = user_id
                            /\ ~tasks[i].is_completed
                            /\ ~IsEvent(tasks[i]) }

\* C6: prioritized ordering.  The result of list_prioritized_tasks holds each
\* incomplete non-event task of the caller once: those with a due_time in
\* non-decreasing order of time_left, then those without a due_time in the
\* order get_tasks returned them (latest first); no task with a due_time
\* comes after one without.
C6_PrioritizedOrdering ==
    (ret.op = "list" /\ ~ret.raised)
    => /\ Len(ret.items) = Cardinality(Listable(ret.user_id))
       /\ \A i \in Listable(ret.user_id) :
             \E k \in 1..Len(ret.items) :
                /\ ret.items[k].id = tasks[i].id
                /\ ret.items[k].timed = (tasks[i].due_time # NoDT)
       /\ \A k, l \in 1..Len(ret.items) :
             k < l =>
               /\ ret.items[l].timed => ret.items[k].timed
               /\ (ret.items[k].timed /\ ret.items[l].timed)
                    => ret.items[k].time_left <= ret.items[l].time_left
               /\ (~ret.items[k].timed /\ ~ret.items[l].timed)
                    => ret.items[k].id > ret.items[l].id

\* a listing has just put an overdue task before a task due later that was
\* stored after it, and so was fetched before it
C6_Witness ==
    /\ ret.op = "list"
    /\ Len(ret.items) = 2
    /\ ret.items[1].timed /\ ret.items[2].timed
    /\ ret.items[1].time_left < 0
    /\ ret.items[2].time_left > 0
    /\ ret.items[1].id < ret.items[2].id

\* C7 as the specification states it: list_prioritized_tasks and
\* get_countdown_events never abort because of one task's classification,
\* for every set of tasks add_task_from_natural_language can store.
C7_ListingsNeverAbort == ret.op \in Listings => ~ret.raised

\* the add request a call of add_task_from_natural_language was made with
RequestOf(text, user_id) ==
    CHOOSE r \in requests : r.text = text /\ r.user_id = user_id

\* the service's answer to r is a record with a non-empty title
HasTitle(r) == r.response.ok /\ Truthy(r.response.data.title)

\* extraction was tried for r and gave no record: the model is not
\* available, or the service failed or answered what json.loads rejects
ExtractionFails(r) == r.text # "" /\ (~model_loaded \/ ~r.response.ok)

\* the service answered r with a record without a title
TitleMissing(r) ==
    r.text # "" /\ model_loaded /\ r.response.ok
      /\ ~Truthy(r.response.data.title)

\* the user-facing error message of a failed extraction
IsErrorMessage(msg) ==
    StartsAt(msg, 1, "AI Error: ") /\ Len(msg) > Len("AI Error: ")

\* C8 as the specification states it: a call that returns has stored a task
\* if and only if the service returned a record with a non-empty title; when
\* extraction fails or the title is missing, the stored tasks are unchanged,
\* an error message is returned and the service was invoked exactly once.
C8_ExactlyOneCall ==
    [][(Called("add") /\ ~ret'.raised)
         => /\ (tasks' # tasks)
                 <=> (ret'.calls >= 1
                        /\ HasTitle(RequestOf(ret'.text, ret'.user_id)))
            /\ (\/ ExtractionFails(RequestOf(ret'.text, ret'.user_id))
                \/ TitleMissing(RequestOf(ret'.text, ret'.user_id)))
               => /\ tasks' = tasks
                  /\ IsErrorMessage(ret'.msg)
                  /\ ret'.calls = 1]_vars

\* C8: a call of add_task_from_natural_language stores a task if and only if
\* the service was invoked and returned a record with a non-empty title, and
\* the task stored is that record's, for the caller; the service is never
\* invoked twice; when a call returns after extraction failed or without a
\* title, the stored tasks are unchanged, an error message is returned, and
\* the service was invoked once if the model is available and not at all if
\* it is not.
C8_AtMostOneCall ==
    [][Called("add")
         => /\ (tasks' # tasks)
                 <=> (ret'.calls >= 1
                        /\ HasTitle(RequestOf(ret'.text, ret'.user_id)))
            /\ (tasks' # tasks)
               => /\ Len(tasks') = Len(tasks) + 1
                  /\ SubSeq(tasks', 1, Len(tasks)) = tasks
                  /\ tasks'[Len(tasks')].user_id = ret'.user_id
                  /\ tasks'[Len(tasks')].title =
                       RequestOf(ret'.text, ret'.user_id).response.data.title
            /\ ret'.calls <= 1
            /\ (/\ ~ret'.raised
                /\ \/ ExtractionFails(RequestOf(ret'.text, ret'.user_id))
                   \/ TitleMissing(RequestOf(ret'.text, ret'.user_id)))
               => /\ tasks' = tasks
                  /\ IsErrorMessage(ret'.msg)
                  /\ ret'.calls = IF model_loaded THEN 1 ELSE 0]_vars

\* the service has just failed on a request, once, while a task is stored
C8_Witness ==
    /\ ret.op = "add"
    /\ ret.calls = 1
    /\ ret.msg = "AI Error: An error occurred while processing your request with the AI."
    /\ Len(tasks) >= 1

\* C9 as the specification states it: the string add_task_from_natural_language
\* returns contains "error" (in any case) if and only if the call stored no
\* task; here for the texts the page passes on, which are not empty.
C9_ErrorMarker ==
    [][(Called("add") /\ ~ret'.raised /\ ret'.text # "")
         => (Contains("error", lower(ret'.msg)) <=> (tasks' = tasks))]_vars

\* resolving the time of r's text raises, or r's due_time is no ISO string
TimeFails(r) ==
    \/ parse_time_manually(r.text, now).kind = "raise"
    \/ r.response.data.due_time.kind = "invalid"

\* C10 as the specification states it: when the service answers a text with
\* a record that has a title and resolving the time from the text or parsing
\* the record's due_time fails, the task is stored all the same, without a
\* due_time, and no exception leaves add_task_from_natural_language.
C10_TimeFailureKeepsRecord ==
    [][(/\ Called("add")
        /\ model_loaded
        /\ ret'.text # ""
        /\ HasTitle(RequestOf(ret'.text, ret'.user_id))
        /\ TimeFails(RequestOf(ret'.text, ret'.user_id)))
         => /\ ~ret'.raised
            /\ Len(tasks') = Len(tasks) + 1
            /\ tasks'[Len(tasks')].due_time = NoDT]_vars

(***************************************************************************)
(* C11: repeat_pattern and is_recurring of the stored tasks.               *)
(***************************************************************************)
\* C11 as the specification states it: in every reachable state every stored
\* task has a repeat_pattern if and only if its is_recurring is true.
C11_PatternIffRecurring ==
    \A i \in 1..Len(tasks) :
       (tasks[i].repeat_pattern # Null) <=> tasks[i].is_recurring

(***************************************************************************)
(* C12: the instant a stored due_time denotes.                             *)
(***************************************************************************)
\* the instant of a due_time string, as minutes of the IST wall clock; a
\* naive string is read as IST
ArrivedAt(due) ==
    IF due.aware THEN ToMinutes(due.dt) - due.off + IST_OFFSET
    ELSE ToMinutes(due.dt)

\* what the specification lets the add pipeline store for the request r at
\* the clock: the instant that arrived, that instant a day later when it is
\* past and the text has no relative marker, or the utility's own result
StorableInstants(r, clock) ==
    {ArrivedAt(r.response.data.due_time)}
      \cup (IF ArrivedAt(r.response.data.due_time) < ToMinutes(clock)
               /\ ~HasRelativeMarker(r.text)
            THEN {ArrivedAt(r.response.data.due_time) + 1440} ELSE {})
      \cup (IF parse_time_manually(r.text, clock).kind = "time"
            THEN {ToMinutes(parse_time_manually(r.text, clock).dt)} ELSE {})

\* C12 as the specification states it: the due_time stored for a candidate
\* due_time denotes the instant that arrived (a naive value read as IST, a
\* value with a UTC offset converted), apart from the one-day past-due shift
\* and the replacement by the utility's result.
C12_SameInstantStored ==
    \A i \in 1..Len(tasks) : \A r \in requests :
       r.response.data.due_time.kind = "iso"
       => /\ tasks[i].due_time # NoDT
          /\ ToMinutes(tasks[i].due_time) \in StorableInstants(r, now)

(***************************************************************************)
(* C13, C14, C20: parse_time_manually.                                     *)
(***************************************************************************)
\* the 24-hour hour of H am / H pm
Hour24(hour, meridiem) ==
    IF meridiem = "pm" THEN (IF hour = 12 THEN 12 ELSE hour + 12)
    ELSE (IF hour = 12 THEN 0 ELSE hour)

\* C13: 12-hour conversion.  For every hour H in 1..12, minute MM in 00..59
\* and meridiem, parse_time_manually on 'H am/pm' or 'H:MM am/pm' returns a
\* timestamp whose hour is H + 12 for pm with H # 12, 12 for 12 pm, 0 for
\* 12 am and H otherwise, and whose minute is MM (0 when there is none).
C13_TwelveHourConversion ==
    (ret.op = "resolve" /\ ret.meridiem # "")
    => /\ ret.value.kind = "time"
       /\ ret.value.dt.hour = Hour24(ret.hour, ret.meridiem)
       /\ ret.value.dt.minute = ret.minute

\* 12:05 am has been resolved to 00:05
C13_Witness ==
    /\ ret.op = "resolve"
    /\ ret.text = "12:05 am"
    /\ ret.value.kind = "time"
    /\ ret.value.dt.hour = 0
    /\ ret.value.dt.minute = 5

\* the day after the day of dt
NextDay(dt) == FromOrdinal(ToOrdinal(dt.year, dt.month, dt.day) + 1)

\* C14: roll-forward.  Whenever parse_time_manually returns a timestamp for
\* a clock expression, it is strictly after the reference timestamp: on the
\* reference date when its time of day is strictly after the reference's,
\* and on the day after the reference date otherwise.
C14_RollForward ==
    (ret.op = "resolve" /\ ret.text \notin RelativeTexts
       /\ ret.value.kind = "time")
    => /\ ToMinutes(ret.value.dt) > ToMinutes(now)
       /\ << ret.value.dt.year, ret.value.dt.month, ret.value.dt.day >> =
            IF ret.value.dt.hour * 60 + ret.value.dt.minute
                 > now.hour * 60 + now.minute
            THEN << now.year, now.month, now.day >>
            ELSE NextDay(now)

\* at noon of 2024-02-28 a time of the morning has been resolved to
\* 2024-02-29, the day after the reference date
C14_Witness ==
    /\ ret.op = "resolve"
    /\ ret.text \notin RelativeTexts
    /\ now = DT(2024, 2, 28, 12, 0)
    /\ ret.value.kind = "time"
    /\ ret.value.dt = DT(2024, 2, 29, 9, 0)

\* C20 as the specification states it: parse_time_manually returns a
\* timestamp or no result for every text, and never raises.
C20_NeverRaises == ret.op = "resolve" => ret.value.kind # "raise"

(***************************************************************************)
(* C15: the completion rate of the digest.                                 *)
(***************************************************************************)
\* how many tasks of the user are completed
CompletedCount(T, user_id) ==
    Cardinality({ i \in 1..Len(T) : T[i].user_id = user_id /\ T[i].is_completed })

\* how many tasks of the user are pending: not completed and no event
PendingCount(T, user_id) ==
    Cardinality({ i \in 1..Len(T) :
                    T[i].user_id = user_id /\ ~T[i].is_completed
                      /\ ~IsEvent(T[i]) })

\* rate is within one half of 100 * c / (c + p)
WithinHalf(rate, c, p) ==
    /\ 2 * (rate * (c + p) - 100 * c) <= c + p
    /\ 2 * (100 * c - rate * (c + p)) <= c + p

\* C15: digest completion rate.  For c completed and p pending tasks,
\* get_daily_summary reports completion_rate 0 when c + p = 0 and otherwise
\* an integer in 0..100 within one half of 100 * c / (c + p); 3 completed
\* and 2 pending give 60.
C15_CompletionRate ==
    (ret.op = "summary" /\ ~ret.summary.raised)
    => /\ ret.summary.completed = CompletedCount(tasks, ret.user_id)
       /\ ret.summary.pending = PendingCount(tasks, ret.user_id)
       /\ IF ret.summary.completed + ret.summary.pending = 0
          THEN ret.summary.completion_rate = 0
          ELSE /\ ret.summary.completion_rate \in 0..100
               /\ WithinHalf(ret.summary.completion_rate,
                             ret.summary.completed, ret.summary.pending)
       /\ (ret.summary.completed = 3 /\ ret.summary.pending = 2)
          => ret.summary.completion_rate = 60

\* the digest of 3 completed tasks, 2 pending tasks and an event reports 60
C15_Witness ==
    /\ ret.op = "summary"
    /\ Len(tasks) = 6
    /\ ret.summary.completed = 3
    /\ ret.summary.pending = 2
    /\ ret.summary.completion_rate = 60

(***************************************************************************)
(* C16: the calendar arithmetic of the recurrence advance.                 *)
(***************************************************************************)
\* the days of a month, written out
LastDayOf(y, m) ==
    IF m \in {4, 6, 9, 11} THEN 30
    ELSE IF m # 2 THEN 31
    ELSE IF y % 4 = 0 /\ (y % 100 # 0 \/ y % 400 = 0) THEN 29 ELSE 28

\* new is old moved on by n months as the calendar has it: the month that
\* lies n months later, the same day of the month if that month has it and
\* its last day if not, at the same time of day
CalendarStep(old, new, n) ==
    /\ new.year * 12 + (new.month - 1) = old.year * 12 + (old.month - 1) + n
    /\ new.day = IF old.day <= LastDayOf(new.year, new.month)
                 THEN old.day ELSE LastDayOf(new.year, new.month)
    /\ new.hour = old.hour /\ new.minute = old.minute

\* C16: recurrence advance is calendar-correct.  Completing a monthly or a
\* yearly task, and the lazy advance of a listing, move the due_time to the
\* same day of the month one month or one year later when that day exists
\* and to the last day of that month when it does not; the result is always
\* a valid date.
C16_CalendarCorrect ==
    [][\A i \in 1..Len(tasks) :
          (Len(tasks') = Len(tasks) /\ tasks'[i].due_time # tasks[i].due_time)
          => /\ tasks'[i].due_time.day
                  <= LastDayOf(tasks'[i].due_time.year, tasks'[i].due_time.month)
             /\ CalendarStep(tasks[i].due_time, tasks'[i].due_time,
                             IF ret'.op = "complete"
                                  /\ lower(tasks[i].repeat_pattern) = "monthly"
                             THEN 1 ELSE 12)]_vars

\* a monthly task first due on the 31st of January 2025 has been completed
\* and is now due on the 28th of February
C16_Witness ==
    /\ ret.op = "complete"
    /\ Len(tasks) = 1
    /\ tasks[1].repeat_pattern = "monthly"
    /\ tasks[1].due_time = DT(2025, 2, 28, 9, 31)

(***************************************************************************)
(* C17: completion of a recurring task that cannot be moved on.            *)
(***************************************************************************)
\* a recurring task without a due_time, without a repeat_pattern, or with
\* one that is none of daily, weekly, monthly, yearly
RecursOffSchedule(row) ==
    /\ row.is_recurring
    /\ \/ row.due_time = NoDT
       \/ row.repeat_pattern = Null
       \/ lower(row.repeat_pattern) \notin NamedPatterns

\* C17 as the specification states it: mark_task_complete on a stored task
\* of the caller that is recurring but has no due_time, or no repeat_pattern,
\* or one that is not daily, weekly, monthly or yearly, leaves the task with
\* is_completed true and its due_time unchanged.
C17_FallbackCompletion ==
    [][\A i \in 1..Len(tasks) :
          (Called("complete") /\ ret'.task_id = tasks[i].id
             /\ ret'.user_id = tasks[i].user_id
             /\ RecursOffSchedule(tasks[i]))
          => /\ Len(tasks') = Len(tasks)
             /\ tasks'[i] = [tasks[i] EXCEPT !.is_completed = TRUE]]_vars

(***************************************************************************)
(* C18, C19: the record parse_task_with_gemini returns for the request of  *)
(* the run (ret.value.data), against the record the service answered with. *)
(***************************************************************************)
\* parse_task_with_gemini has returned a record for the request r
Parsed(r) ==
    /\ ret.op = "parse"
    /\ ret.text = r.text
    /\ ret.value.kind = "data"

\* C18 as the specification states it, for texts in which the utility finds
\* no time, so that the resolved due_time is the candidate's: a due_time
\* strictly before the reference timestamp is returned moved on by exactly
\* one day when the text has none of the markers "in ", "after ", "ago", be
\* the string naive or with a UTC offset; it is returned as it is when a
\* marker is present or it is not in the past.
C18_PastDueShift ==
    \A r \in requests :
       (Parsed(r) /\ r.response.data.due_time.kind = "iso"
          /\ parse_time_manually(r.text, now).kind = "none")
       => IF ArrivedAt(r.response.data.due_time) < ToMinutes(now)
               /\ ~HasRelativeMarker(r.text)
          THEN /\ ret.value.data.due_time.kind = "iso"
               /\ ArrivedAt(ret.value.data.due_time)
                    = ArrivedAt(r.response.data.due_time) + 1440
          ELSE ret.value.data.due_time = r.response.data.due_time

\* C19 as the specification states it, for candidates that are not in the
\* past: when the candidate has a due_time and the utility produced a
\* result, the returned due_time is the utility's result if the two differ
\* by strictly more than 12 hours and the candidate's own otherwise; on a
\* replacement the correction note is written only when the candidate had
\* no notes.
C19_ReconcileThreshold ==
    \A r \in requests :
       (Parsed(r) /\ r.response.data.due_time.kind = "iso"
          /\ ArrivedAt(r.response.data.due_time) >= ToMinutes(now)
          /\ parse_time_manually(r.text, now).kind = "time")
       => IF ArrivedAt(r.response.data.due_time)
                - ToMinutes(parse_time_manually(r.text, now).dt)
               \notin -720..720
          THEN /\ ret.value.data.due_time
                    = NaiveIso(parse_time_manually(r.text, now).dt)
               /\ ret.value.data.user_notes
                    = IF Truthy(r.response.data.user_notes)
                      THEN r.response.data.user_notes ELSE CorrectionNote
          ELSE ret.value.data = r.response.data

\* C21: yearly-recurring tasks are a subset of events.  For every stored
\* (title, category) that _is_yearly_recurring_event accepts, _is_event is
\* true as well, so no task that list_prioritized_tasks returns is
\* classified yearly-recurring.
C21_YearlyAreEvents ==
    /\ \A i \in 1..Len(tasks) :
          (tasks[i].category # Null /\ IsYearly(tasks[i])) => IsEvent(tasks[i])
    /\ ret.op = "list" =>
          \A k \in 1..Len(ret.items) :
             Stored(tasks, ret.items[k].id)
                => ~IsYearly(RowOf(tasks, ret.items[k].id))

\* the view a task belongs to: the countdown for an event, the list otherwise
ViewOf(row) == IF IsEvent(row) THEN "countdown" ELSE "list"

\* C22: every incomplete task of a user is in exactly one of the two views.
\* A call of get_countdown_events returns each incomplete task of the user
\* that is an event and no other task, and a call of list_prioritized_tasks
\* returns each incomplete task that is no event and no other task; so no
\* incomplete task is missing from both views and none is in both.
C22_ExactlyOneView ==
    [][\A i \in 1..Len(tasks) :
          (ticks' = ticks /\ ret'.op \in Listings
             /\ tasks[i].user_id = ret'.user_id /\ ~tasks[i].is_completed)
          => (EntriesOf(ret'.items, tasks[i].id) # {}
                <=> ViewOf(tasks[i]) = ret'.op)]_vars

\* the fields of a row but its due_time
SameButDue(old, new) == new = [old EXCEPT !.due_time = new.due_time]

\* C23: the write footprint of the read operations.  get_daily_summary
\* changes no row.  list_prioritized_tasks and get_countdown_events create
\* and delete no row, keep the rows in their order of creation, change no
\* field of a row but its due_time, and change the due_time only of a task
\* that is classified yearly-recurring and whose due_time was before now
\* when the call was made.
C23_ReadFootprint ==
    [][/\ (ticks' = ticks /\ ret'.op = "summary") => tasks' = tasks
       /\ (ticks' = ticks /\ ret'.op \in Listings) =>
             /\ Len(tasks') = Len(tasks)
             /\ \A i \in 1..Len(tasks) :
                   /\ SameButDue(tasks[i], tasks'[i])
                   /\ tasks'[i].due_time # tasks[i].due_time =>
                         /\ tasks[i].category # Null
                         /\ IsYearly(tasks[i])
                         /\ tasks[i].due_time # NoDT
                         /\ Before(tasks[i].due_time, now)]_vars

\* list_prioritized_tasks has moved the due_time of 'Newborn Checkup' on a
\* year, and no completion has moved any
C23_Witness ==
    /\ ret.op = "list"
    /\ advances = 0
    /\ \E i \in 1..Len(tasks) :
          /\ tasks[i].title = "Newborn Checkup"
          /\ tasks[i].user_id = ret.user_id
          /\ tasks[i].due_time = DT(2025, 6, 1, 10, 0)

\* the operations C24 names
DueTimeOps == {"list", "countdown", "summary", "complete"}

\* new is old moved on by one day, one week, one month or one year
OneUnitLater(old, new) ==
    \/ ToMinutes(new) = ToMinutes(old) + 1440
    \/ ToMinutes(new) = ToMinutes(old) + 7 * 1440
    \/ CalendarStep(old, new, 1)
    \/ CalendarStep(old, new, 12)

\* C24: a stored due_time only moves forward.  Every list, countdown,
\* digest and mark_task_complete call keeps every stored task, and leaves
\* its due_time as it is or moves it to a later time that is exactly one
\* day, one week, one month or one year on; a task without a due_time is
\* never given one and a due_time is never removed.
C24_DueOnlyForward ==
    [][(ticks' = ticks /\ ret'.op \in DueTimeOps) =>
          /\ Len(tasks') = Len(tasks)
          /\ \A i \in 1..Len(tasks) :
                \/ tasks'[i].due_time = tasks[i].due_time
                \/ /\ tasks[i].due_time # NoDT
                   /\ tasks'[i].due_time # NoDT
                   /\ Before(tasks[i].due_time, tasks'[i].due_time)
                   /\ OneUnitLater(tasks[i].due_time, tasks'[i].due_time)]_vars

\* the birthday first due on 29 February 2024 has been moved on twice, by a
\* listing and by a completion
C24_Witness ==
    /\ ret.op = "complete"
    /\ advances = 1
    /\ \E i \in 1..Len(tasks) :
          /\ tasks[i].title = "Dad's Birthday"
          /\ tasks[i].due_time = DT(2026, 2, 28, 18, 30)

\* a whole call, made with no other call in flight
WholeCall(op, T) ==
    CASE op = "complete"  -> mark_task_complete(T, 1, 1).T
      [] op = "list"      -> list_prioritized_tasks(T, 1, Start).T
      [] op = "countdown" -> get_countdown_events(T, 1, Start).T

\* the table before the two calls: the task as it is but for the two fields
\* that the calls write
BeforeCalls(T) ==
    << [T[1] EXCEPT !.due_time = RaceDue, !.is_completed = FALSE] >>

\* the tables the two calls leave when one is made after the other
SequentialOutcomes(T, first, second) ==
    { WholeCall(second, WholeCall(first, BeforeCalls(T))),
      WholeCall(first, WholeCall(second, BeforeCalls(T))) }

\* C25: no lost update on the same task.  When two calls of the same user
\* on a recurring task (two mark_task_complete calls, or a
\* mark_task_complete and a listing) have both returned, however their
\* reads and writes were interleaved, the stored due_time and is_completed
\* are those that one of the two sequential orders of the calls produces.
C25_NoLostUpdate ==
    (ret.op # "init" /\ \A k \in DOMAIN requests : requests[k].pc = "done")
    => \E S \in SequentialOutcomes(tasks, requests[1].op, requests[2].op) :
          /\ S[1].due_time = tasks[1].due_time
          /\ S[1].is_completed = tasks[1].is_completed

=============================================================================
